---- MODULE Spec2Model ----
(***************************************************************************)
(* Model of the ecommerce-microservice-go backend: the JWT token service,  *)
(* the user/auth service (register, login), the order pricing/status       *)
(* engine with its two HTTP front ends (the monolith controller and the    *)
(* standalone order service), the routers, the error boundary and the      *)
(* product catalog, the services' startup and the gateway.                 *)
(*                                                                         *)
(* The specifications share the module, one per subsystem, so that each    *)
(* state space stays small:                                                *)
(*   TokenSpec    - pkg/security JWTService (issue / verify, wall clock)   *)
(*   UserSpec     - services/user (register, update, delete, login)        *)
(*   PricingSpec  - order creation: use case, repositories, create routes  *)
(*   OrderSpec    - the order routes: create, list, get, update status     *)
(*   StatusSpec   - the create and status routes, statuses of the allow-set*)
(*   RouteSpec    - the routers and the middleware of their chains         *)
(*   BoundarySpec - the boundary middleware (ErrorHandler)                 *)
(*   CatalogSpec  - the product repository and the product handlers        *)
(*   ListingSpec  - the product listings, withdrawal and deletion           *)
(*   FaultSpec    - the order repositories over a store whose calls fail   *)
(*   ServiceSpec  - a program from its start on, request after request     *)
(*   GatewaySpec  - services/gateway (routes, cors, reverse proxies)       *)
(*   RefreshSpec  - services/user with its refresh endpoint and the clock  *)
(*   RaceSpec     - product creations running at the same time             *)
(***************************************************************************)
EXTENDS Integers, Sequences, FiniteSets, TLC

VARIABLES
    now,        \* wall clock, whole seconds (time.Now().Unix())
    ticks,      \* number of clock advances taken so far (bounds the clock)
    config,     \* JWTConfig held by the JWTService
    issued,     \* the AppToken most recently returned by GenerateJWTToken
    verified,   \* the most recent call of GetClaimsAndVerifyToken and its result
    users,      \* rows of table "users"
    nextUserID, \* next primary key of table "users"
    loginRes,   \* the most recent call of AuthUseCase.Login and its HTTP outcome
    deployment, \* which order front end serves: "monolith" or "service"
    orders,     \* rows of table "orders" with their order_items, by primary key
    orderRes,   \* the most recent order request and its outcome
    routeRes,   \* the most recent request dispatched by a router and what ran
    ginErrors,  \* c.Errors of the request the boundary middleware wraps
    written,    \* the response the boundary middleware wrote for it
    products,   \* rows of table "products"
    nextProductID, \* next primary key of table "products"
    catalogRes, \* the most recent product request and its outcome
    storeRes,   \* the most recent order repository call under store failures
    program,    \* the program that starts: "monolith", "user", "catalog", "order"
    boot,       \* its startup: phase, whether the store is reachable, what was built
    reqLog,     \* the requests it has served so far: cause and response of each
    gatewayRes, \* the most recent request at the gateway and what became of it
    refreshRes, \* the most recent call of AccessTokenByRefreshToken and its result
    racers      \* the concurrent create requests: where each is, what it got

vars == <<now, ticks, config, issued, verified, users, nextUserID, loginRes,
          deployment, orders, orderRes, routeRes, ginErrors, written,
          products, nextProductID, catalogRes, storeRes, program, boot, reqLog,
          gatewayRes, refreshRes, racers>>

tokenVars == <<now, ticks, config, issued, verified>>
userVars  == <<users, nextUserID, loginRes>>
orderVars == <<deployment, orders, orderRes>>
routeVars == <<routeRes>>
boundaryVars == <<ginErrors, written>>
catalogVars  == <<products, nextProductID, catalogRes>>
\* the variables of the specifications that follow the catalog
faultVars    == <<storeRes>>
serviceVars  == <<program, boot, reqLog>>
gatewayVars  == <<gatewayRes>>
refreshVars  == <<refreshRes>>
raceVars     == <<racers>>
restVars     == <<faultVars, serviceVars, gatewayVars, refreshVars, raceVars>>

-----------------------------------------------------------------------------
(* Bounds of the model *)

MaxTicks == 2

\* clock steps, in seconds: around a one-minute and a one-hour validity
TickSteps == {1, 59, 3599}

\* principal ids used as inputs
UserIDs == {1, 2}

-----------------------------------------------------------------------------
(* Error taxonomy (pkg/errors): kinds, statuses, default messages *)

NotFound              == "NotFound"
ValidationError       == "ValidationError"
ResourceAlreadyExists == "ResourceAlreadyExists"
RepositoryError       == "RepositoryError"
NotAuthenticated      == "NotAuthenticated"
TokenGeneratorError   == "TokenGeneratorError"
NotAuthorized         == "NotAuthorized"
UnknownError          == "UnknownError"

ErrorKinds == {NotFound, ValidationError, ResourceAlreadyExists, RepositoryError,
               NotAuthenticated, TokenGeneratorError, NotAuthorized, UnknownError}

\* an error that is no *AppError (errors.New, a library error)
Untyped == "untyped"

\* the default message of each kind, as the guidelines of the repository
\* table them
DefaultMessage(kind) ==
    CASE kind = NotFound              -> "record not found"
      [] kind = ValidationError       -> "validation error"
      [] kind = ResourceAlreadyExists -> "resource already exists"
      [] kind = RepositoryError       -> "error in repository operation"
      [] kind = NotAuthenticated      -> "not Authenticated"
      [] kind = TokenGeneratorError   -> "error in token generation"
      [] kind = NotAuthorized         -> "not authorized"
      [] OTHER                        -> "something went wrong"

KindStatus(kind) ==
    CASE kind = NotFound              -> 404
      [] kind = ValidationError       -> 400
      [] kind = ResourceAlreadyExists -> 409
      [] kind = RepositoryError       -> 500
      [] kind = NotAuthenticated      -> 401
      [] kind = TokenGeneratorError   -> 500
      [] kind = NotAuthorized         -> 403
      [] OTHER                        -> 500

\* the nil error
NoError == [kind |-> "", msg |-> ""]

\* domainErrors.NewAppError(err, kind): the kind with the message of err
NewAppError(msg, kind) == [kind |-> kind, msg |-> msg]

\* domainErrors.NewAppErrorWithType(kind): the kind with its default message
NewAppErrorWithType(kind) == [kind |-> kind, msg |-> DefaultMessage(kind)]

\* errors.New(msg): an error that is no AppError
ErrorsNew(msg) == [kind |-> Untyped, msg |-> msg]

\* domainErrors.AppErrorToHTTP: (status, message) of an AppError
AppErrorToHTTP(appErr) == [status |-> KindStatus(appErr.kind), error |-> appErr.msg]

\* middleware.ErrorHandler: the response written for the last error of the context
ErrorHandlerAlways500(err) == [status |-> 500, error |-> "Internal Server Error"]

ErrorHandler(err) ==
    IF err.kind \in ErrorKinds
    THEN AppErrorToHTTP(err)
    ELSE [status |-> 500, error |-> "Internal Server Error"]

-----------------------------------------------------------------------------
(* JWT token service (pkg/security) *)

Access  == "access"
Refresh == "refresh"
TokenTypes == {Access, Refresh}

HS256 == "HS256"

SecondsPerMinute == 60
SecondsPerHour   == 3600

\* JSON claim values as jwt.MapClaims holds them after parsing
Num(n)  == [k |-> "num", n |-> n, s |-> ""]      \* a JSON number (float64)
Str(s)  == [k |-> "str", n |-> 0, s |-> s]       \* a JSON string
Absent  == [k |-> "absent", n |-> 0, s |-> ""]   \* the claim is missing (or null)

NoClaims == [id |-> Absent, type |-> Absent, exp |-> Absent]

\* A token string: header algorithm, the key its MAC was computed with, claims
NoToken == [alg |-> "", key |-> "", claims |-> NoClaims]

\* jwt.NewWithClaims(method, claims).SignedString(key)
SignedString(alg, claims, key) == [alg |-> alg, key |-> key, claims |-> claims]

\* the configurations of the service: secrets equal or different, validity
\* of an access token in minutes, of a refresh token in hours
Configs ==
    [AccessSecret : {"sA"}, RefreshSecret : {"sA", "sR"},
     AccessTime : {0, 1}, RefreshTime : {1}]

GenerateJWTTokenWrongSecret(cfg, userID, tokenType, clock) ==
    IF tokenType \notin TokenTypes
    THEN [err |-> ErrorsNew("invalid token type"), Token |-> NoToken,
          TokenType |-> "", ExpirationTime |-> 0]
    ELSE LET secretKey == IF tokenType = Access THEN cfg.RefreshSecret
                                                ELSE cfg.AccessSecret
             duration  == IF tokenType = Access
                          THEN cfg.AccessTime * SecondsPerMinute
                          ELSE cfg.RefreshTime * SecondsPerHour
             exp       == clock + duration
             tokenClaims == [id |-> Num(userID), type |-> Str(tokenType),
                             exp |-> Num(exp)]
         IN [err |-> NoError,
             Token |-> SignedString(HS256, tokenClaims, secretKey),
             TokenType |-> tokenType, ExpirationTime |-> exp]

\* JWTService.GenerateJWTToken
GenerateJWTToken(cfg, userID, tokenType, clock) ==
    IF tokenType \notin TokenTypes
    THEN [err |-> ErrorsNew("invalid token type"), Token |-> NoToken,
          TokenType |-> "", ExpirationTime |-> 0]
    ELSE LET secretKey == IF tokenType = Access THEN cfg.AccessSecret
                                                ELSE cfg.RefreshSecret
             duration  == IF tokenType = Access
                          THEN cfg.AccessTime * SecondsPerMinute
                          ELSE cfg.RefreshTime * SecondsPerHour
             exp       == clock + duration
             tokenClaims == [id |-> Num(userID), type |-> Str(tokenType),
                             exp |-> Num(exp)]
         IN [err |-> NoError,
             Token |-> SignedString(HS256, tokenClaims, secretKey),
             TokenType |-> tokenType, ExpirationTime |-> exp]

\* the exp validation jwt.Parse applies to MapClaims: an absent exp (or 0)
\* passes, a number must lie strictly after the clock, another type fails
ClaimsValidLenient(claims, clock) ==
    CASE claims.exp.k = "absent" -> TRUE
      [] claims.exp.k = "num"    -> claims.exp.n = 0 \/ clock <= claims.exp.n
      [] OTHER                   -> FALSE

ClaimsValid(claims, clock) ==
    CASE claims.exp.k = "absent" -> TRUE
      [] claims.exp.k = "num"    -> claims.exp.n = 0 \/ clock < claims.exp.n
      [] OTHER                   -> FALSE

\* jwt.Parse(tokenString, keyFunc): TRUE iff it returns no error
JwtParse(tokenString, secretKey, clock) ==
    /\ tokenString.alg = HS256                     \* keyFunc: alg must be HS256
    /\ ClaimsValid(tokenString.claims, clock)      \* claims.Valid()
    /\ tokenString.key = secretKey                 \* the MAC verifies

\* claims["type"] != tokenType
TypeMismatchIgnored(claims, tokenType) == FALSE

TypeMismatch(claims, tokenType) == claims.type # Str(tokenType)

\* the id claim is present and a number
IDClaimUnchecked(claims) == NoError

IDClaimError(claims) ==
    IF claims.id.k = "absent" THEN NewAppError("token missing id claim", NotAuthenticated)
    ELSE IF claims.id.k # "num"
         THEN NewAppError("token id claim is not a number", NotAuthenticated)
         ELSE NoError

\* the exp claim is present, a number and not before the clock
ExpClaimError(claims, clock) ==
    IF claims.exp.k = "absent"
    THEN NewAppError("token missing expiration (exp) claim", NotAuthenticated)
    ELSE IF claims.exp.k # "num"
         THEN NewAppError("token exp claim is not a float64", NotAuthenticated)
         ELSE IF clock > claims.exp.n
              THEN NewAppError("token expired", NotAuthenticated)
              ELSE NoError

\* JWTService.GetClaimsAndVerifyToken: (claims, err)
GetClaimsAndVerifyToken(cfg, tokenString, tokenType, clock) ==
    LET secretKey == IF tokenType = Refresh THEN cfg.RefreshSecret
                                            ELSE cfg.AccessSecret
        claims    == tokenString.claims
        fail(e)   == [claims |-> NoClaims, err |-> e]
    IN IF ~JwtParse(tokenString, secretKey, clock)
       THEN fail(NewAppError("token parse error", NotAuthenticated))
       ELSE IF TypeMismatch(claims, tokenType)
       THEN fail(NewAppError("invalid token type", NotAuthenticated))
       ELSE IF ExpClaimError(claims, clock) # NoError
       THEN fail(ExpClaimError(claims, clock))
       ELSE IF IDClaimError(claims) # NoError
       THEN fail(IDClaimError(claims))
       ELSE [claims |-> claims, err |-> NoError]

-----------------------------------------------------------------------------
(* Token service as a state machine: a client asks for tokens, the clock   *)
(* advances, and tokens (issued ones and arbitrary ones) are presented for *)
(* verification.                                                           *)

NoIssued == [userID |-> 0, app |-> GenerateJWTToken(CHOOSE c \in Configs : TRUE, 0, "", 0)]

NoVerified == [done |-> FALSE, token |-> NoToken, expected |-> "", at |-> 0,
               res |-> [claims |-> NoClaims, err |-> NoError]]

\* token strings a client can present: a well-formed token for the expected
\* type with at most one of its parts replaced
ClaimFaults(clock) ==
    [part : {"id"},   v : {Absent, Str("1")}] \cup
    [part : {"type"}, v : {Absent, Str("other"), Num(1)}] \cup
    [part : {"exp"},  v : {Absent, Str("soon"), Num(0), Num(clock - 1),
                           Num(clock), Num(clock + 1)}]

Presentable(cfg, tokenType, clock) ==
    LET secretKey == IF tokenType = Refresh THEN cfg.RefreshSecret ELSE cfg.AccessSecret
        good == [id |-> Num(1), type |-> Str(tokenType), exp |-> Num(clock + 1)]
    IN {SignedString(HS256, good, secretKey)}
       \cup {SignedString(HS256, [good EXCEPT ![f.part] = f.v], secretKey) :
                f \in ClaimFaults(clock)}
       \cup {SignedString(a, good, secretKey) : a \in {"none", "HS512"}}
       \cup {SignedString(HS256, good, k) : k \in {"sA", "sR", "guess"}}

TokenInit ==
    /\ now = 1000
    /\ ticks = 0
    /\ config \in Configs
    /\ issued = NoIssued
    /\ verified = NoVerified

Tick ==
    /\ ticks < MaxTicks
    /\ \E d \in TickSteps : now' = now + d
    /\ ticks' = ticks + 1
    /\ UNCHANGED <<config, issued, verified>>

Generate ==
    \E id \in UserIDs, t \in TokenTypes \cup {"other"} :
        /\ issued' = [userID |-> id, app |-> GenerateJWTToken(config, id, t, now)]
        /\ UNCHANGED <<now, ticks, config, verified>>

VerifyIssued ==
    \E t \in TokenTypes :
        /\ issued.app.err = NoError
        /\ verified' = [done |-> TRUE, token |-> issued.app.Token, expected |-> t,
                        at |-> now,
                        res |-> GetClaimsAndVerifyToken(config, issued.app.Token, t, now)]
        /\ UNCHANGED <<now, ticks, config, issued>>

VerifyPresented ==
    \E t \in TokenTypes : \E tok \in Presentable(config, t, now) :
        /\ verified' = [done |-> TRUE, token |-> tok, expected |-> t, at |-> now,
                        res |-> GetClaimsAndVerifyToken(config, tok, t, now)]
        /\ UNCHANGED <<now, ticks, config, issued>>

-----------------------------------------------------------------------------
(* User service: repository, use cases, login (services/user) *)

MaxUsers == 2

Emails    == {"a@x.com", "b@x.com"}
Passwords == {"p", "wrong"}

\* the JWT configuration and the clock the user and order services run with
ServiceConfig == [AccessSecret |-> "sA", RefreshSecret |-> "sR",
                  AccessTime |-> 1, RefreshTime |-> 1]

\* bcrypt.GenerateFromPassword: a salted hash, never the plaintext itself
GenerateFromPassword(password) == [hashed |-> TRUE, of |-> password]

\* a string stored as it came, which is no bcrypt hash
Plain(s) == [hashed |-> FALSE, of |-> s]

\* bcrypt.CompareHashAndPassword(hash, password) = nil
CompareHashAndPassword(hash, password) == hash.hashed /\ hash.of = password

NoUser == [ID |-> 0, Email |-> "", HashPassword |-> Plain(""), Status |-> FALSE]

\* the error of the store for a violated unique index, as the repositories
\* read it: they look for error number 1062, the postgres driver reports
\* SQLSTATE 23505 in a field the GormErr structure does not read
UniqueViolationNumber == 0

\* Repository.GetByEmail
GetByEmail(rows, email) ==
    IF \E u \in rows : u.Email = email
    THEN [user |-> CHOOSE u \in rows : u.Email = email, err |-> NoError]
    ELSE [user |-> NoUser, err |-> NewAppErrorWithType(NotFound)]

\* Repository.GetByID (users)
UserGetByID(rows, id) ==
    IF \E u \in rows : u.ID = id
    THEN [user |-> CHOOSE u \in rows : u.ID = id, err |-> NoError]
    ELSE [user |-> NoUser, err |-> NewAppErrorWithType(NotFound)]

\* Repository.Create (users): the row inserted, or the classified store error
UserRepositoryCreate(rows, nextID, u) ==
    IF \E x \in rows : x.Email = u.Email
    THEN [rows |-> rows, user |-> NoUser,
          err |-> IF UniqueViolationNumber = 1062
                  THEN NewAppErrorWithType(ResourceAlreadyExists)
                  ELSE NewAppErrorWithType(UnknownError)]
    ELSE LET row == [u EXCEPT !.ID = nextID]
         IN [rows |-> rows \cup {row}, user |-> row, err |-> NoError]

\* UserUseCase.Create: hash the password, then store
UserUseCaseCreate(rows, nextID, u) ==
    UserRepositoryCreate(rows, nextID,
        [u EXCEPT !.HashPassword = GenerateFromPassword(u.HashPassword.of)])

NoTokens == [AccessToken |-> NoToken, RefreshToken |-> NoToken,
             ExpirationAccessDateTime |-> 0, ExpirationRefreshDateTime |-> 0]

LoginNoPasswordCheck(rows, cfg, clock, email, password) ==
    LET got == GetByEmail(rows, email)
        fail(e) == [user |-> NoUser, tokens |-> NoTokens, err |-> e]
    IN IF got.err # NoError THEN fail(got.err)
       ELSE LET accessToken  == GenerateJWTToken(cfg, got.user.ID, "access", clock)
                refreshToken == GenerateJWTToken(cfg, got.user.ID, "refresh", clock)
            IN [user |-> got.user,
                tokens |-> [AccessToken |-> accessToken.Token,
                            RefreshToken |-> refreshToken.Token,
                            ExpirationAccessDateTime |-> accessToken.ExpirationTime,
                            ExpirationRefreshDateTime |-> refreshToken.ExpirationTime],
                err |-> NoError]

\* AuthUseCase.Login: (user, tokens, err)
Login(rows, cfg, clock, email, password) ==
    LET got == GetByEmail(rows, email)
        fail(e) == [user |-> NoUser, tokens |-> NoTokens, err |-> e]
    IN IF got.err # NoError THEN fail(got.err)
       ELSE IF got.user.ID = 0
       THEN fail(NewAppError("email or password does not match", NotAuthenticated))
       ELSE IF ~CompareHashAndPassword(got.user.HashPassword, password)
       THEN fail(NewAppError("email or password does not match", NotAuthenticated))
       ELSE LET accessToken  == GenerateJWTToken(cfg, got.user.ID, "access", clock)
                refreshToken == GenerateJWTToken(cfg, got.user.ID, "refresh", clock)
            IN IF accessToken.err # NoError THEN fail(accessToken.err)
               ELSE IF refreshToken.err # NoError THEN fail(refreshToken.err)
               ELSE [user |-> got.user,
                     tokens |-> [AccessToken |-> accessToken.Token,
                                 RefreshToken |-> refreshToken.Token,
                                 ExpirationAccessDateTime |-> accessToken.ExpirationTime,
                                 ExpirationRefreshDateTime |-> refreshToken.ExpirationTime],
                     err |-> NoError]

\* Handler.Login behind middleware.ErrorHandler: the HTTP response
LoginResponse(rows, cfg, clock, email, password) ==
    LET r == Login(rows, cfg, clock, email, password)
    IN IF r.err # NoError
       THEN [status |-> ErrorHandler(r.err).status, error |-> ErrorHandler(r.err).error,
             id |-> 0, tokens |-> NoTokens]
       ELSE [status |-> 200, error |-> "", id |-> r.user.ID, tokens |-> r.tokens]

NoLogin == [done |-> FALSE, email |-> "", password |-> "", user |-> NoUser, kind |-> "",
            resp |-> [status |-> 0, error |-> "", id |-> 0, tokens |-> NoTokens]]

UserInit ==
    /\ users = {}
    /\ nextUserID = 1
    /\ loginRes = NoLogin

\* Handler.Register: POST /auth/register
RegisterOf(emails, passwords) ==
    \E e \in emails, p \in passwords :
        /\ nextUserID <= MaxUsers
        /\ LET r == UserUseCaseCreate(users, nextUserID,
                        [ID |-> 0, Email |-> e, HashPassword |-> Plain(p),
                         Status |-> TRUE])
           IN /\ users' = r.rows
              /\ nextUserID' = IF r.err = NoError THEN nextUserID + 1 ELSE nextUserID
        /\ UNCHANGED loginRes

Register == RegisterOf(Emails, Passwords)

\* Handler.DeleteUser: DELETE /user/:id
DeleteUser ==
    \E id \in 1..MaxUsers :
        /\ users' = {u \in users : u.ID # id}
        /\ UNCHANGED <<nextUserID, loginRes>>

\* Handler.UpdateUser: PUT /user/:id with a field map naming the stored
\* password column or the email column
UpdateUser ==
    \E id \in 1..MaxUsers :
        /\ \E u \in users : u.ID = id
        /\ \/ \E s \in Passwords :
                users' = {IF u.ID = id THEN [u EXCEPT !.HashPassword = Plain(s)] ELSE u :
                            u \in users}
           \/ \E e \in Emails :
                /\ ~\E x \in users : x.Email = e /\ x.ID # id
                /\ users' = {IF u.ID = id THEN [u EXCEPT !.Email = e] ELSE u : u \in users}
        /\ UNCHANGED <<nextUserID, loginRes>>

\* Handler.Login: POST /auth/login
LoginRequestOf(emails, passwords) ==
    \E e \in emails, p \in passwords :
        /\ loginRes' = [done |-> TRUE, email |-> e, password |-> p,
                        user |-> GetByEmail(users, e).user,
                        kind |-> Login(users, ServiceConfig, now, e, p).err.kind,
                        resp |-> LoginResponse(users, ServiceConfig, now, e, p)]
        /\ UNCHANGED <<users, nextUserID>>

LoginRequest == LoginRequestOf(Emails, Passwords)


-----------------------------------------------------------------------------
(* Orders: use case, repositories, routes.  Prices and amounts are float64 *)
(* in the source; the model draws them from integers, on which float64     *)
(* multiplication and addition are exact.                                  *)

MaxOrders == 2

OrderStatusPending == "pending"

\* the allow-set of Controller.UpdateOrderStatus
validStatuses == {"pending", "paid", "shipped", "delivered", "cancelled"}

NoOrder == [ID |-> 0, UserID |-> 0, Status |-> "", TotalAmount |-> 0,
            ShippingAddress |-> "", Items |-> <<>>]

\* total of the subtotals, accumulated from the first item on
RECURSIVE SumSubtotals(_)
SumSubtotals(items) ==
    IF items = <<>> THEN 0
    ELSE SumSubtotals(SubSeq(items, 1, Len(items) - 1)) + items[Len(items)].Subtotal

OrderUseCaseCreateTrusting(o) == [o EXCEPT !.Status = OrderStatusPending]

OrderUseCaseCreateKeepingStatus(o) ==
    LET items == [i \in DOMAIN o.Items |->
                    [o.Items[i] EXCEPT !.Subtotal = o.Items[i].Quantity * o.Items[i].Price]]
    IN [o EXCEPT !.Items = items, !.TotalAmount = SumSubtotals(items)]

\* OrderUseCase.Create, up to the call of the repository: the order handed
\* to persistence (the same code in both deployments)
OrderUseCaseCreate(o) ==
    LET items == [i \in DOMAIN o.Items |->
                    [o.Items[i] EXCEPT !.Subtotal = o.Items[i].Quantity * o.Items[i].Price]]
    IN [o EXCEPT !.Items = items,
                 !.TotalAmount = SumSubtotals(items),
                 !.Status = OrderStatusPending]

\* fromDomainMapper and DB.Create of the monolith repository: the row stored
RepositoryCreate(rows, o) ==
    Append(rows, [ID |-> Len(rows) + 1, UserID |-> o.UserID, Status |-> o.Status,
                  TotalAmount |-> o.TotalAmount,
                  ShippingAddress |-> o.ShippingAddress, Items |-> o.Items])

\* fromDomain and DB.Create of the order service repository: its table has
\* no shipping address
ServiceRepositoryCreate(rows, o) ==
    Append(rows, [ID |-> Len(rows) + 1, UserID |-> o.UserID, Status |-> o.Status,
                  TotalAmount |-> o.TotalAmount,
                  ShippingAddress |-> "", Items |-> o.Items])

\* Repository.GetByID (orders), both repositories
OrderGetByID(rows, id) ==
    IF id \in DOMAIN rows
    THEN [order |-> rows[id], err |-> NoError]
    ELSE [order |-> NoOrder, err |-> NewAppErrorWithType(NotFound)]

\* Repository.GetByUserID
GetByUserID(rows, userID) == SelectSeq(rows, LAMBDA o : o.UserID = userID)

\* Repository.UpdateStatus, both repositories: the rows after it and (order, err)
RepositoryUpdateStatusTerminal(rows, id, status) ==
    IF id \in DOMAIN rows /\ rows[id].Status \notin {"delivered", "cancelled"}
    THEN LET after == [rows EXCEPT ![id].Status = status]
         IN [rows |-> after, order |-> after[id], err |-> NoError]
    ELSE [rows |-> rows, order |-> NoOrder, err |-> NewAppErrorWithType(NotFound)]

RepositoryUpdateStatusResetting(rows, id, status) ==
    IF id \in DOMAIN rows
    THEN LET after == [rows EXCEPT ![id].Status = status, ![id].TotalAmount = 0]
         IN [rows |-> after, order |-> after[id], err |-> NoError]
    ELSE [rows |-> rows, order |-> NoOrder, err |-> NewAppErrorWithType(NotFound)]

RepositoryUpdateStatus(rows, id, status) ==
    IF id \in DOMAIN rows
    THEN LET after == [rows EXCEPT ![id].Status = status]
         IN [rows |-> after, order |-> after[id], err |-> NoError]
    ELSE [rows |-> rows, order |-> NoOrder, err |-> NewAppErrorWithType(NotFound)]

\* binding:"required" of gin: a string, an int, a float must not be the
\* zero value, a slice must not be nil
ItemBound(it) == it.ProductID # 0 /\ it.Quantity # 0 /\ it.Price # 0

\* NewOrderRequest of the monolith controller:
\* shippingAddress required, items required,dive
ControllerBindJSON(body) ==
    /\ body.ShippingAddress # ""
    /\ body.hasItems
    /\ \A i \in DOMAIN body.Items : ItemBound(body.Items[i])

\* NewOrderRequest of the order service: items required (no dive)
HandlerBindJSON(body) == body.hasItems

\* UpdateStatusRequest: status required
StatusBindJSON(status) == status # ""

\* AuthJWTMiddleware: verifies the bearer token as an access token and puts
\* its id claim into the request context as "userId"
AuthJWTMiddleware(cfg, bearer, clock) ==
    LET r == GetClaimsAndVerifyToken(cfg, bearer, Access, clock)
    IN IF bearer = NoToken \/ r.err # NoError
       THEN [ok |-> FALSE, userId |-> 0, err |-> NewAppErrorWithType(NotAuthenticated)]
       ELSE [ok |-> TRUE, userId |-> r.claims.id.n, err |-> NoError]

\* the domain order a create handler builds from the request
DomainOrderUnowned(userID, address, items) ==
    [ID |-> 0, UserID |-> 0, Status |-> "", TotalAmount |-> 0,
     ShippingAddress |-> address,
     Items |-> [i \in DOMAIN items |->
                 [ProductID |-> items[i].ProductID, Quantity |-> items[i].Quantity,
                  Price |-> items[i].Price, Subtotal |-> 0]]]

DomainOrder(userID, address, items) ==
    [ID |-> 0, UserID |-> userID, Status |-> "", TotalAmount |-> 0,
     ShippingAddress |-> address,
     Items |-> [i \in DOMAIN items |->
                 [ProductID |-> items[i].ProductID, Quantity |-> items[i].Quantity,
                  Price |-> items[i].Price, Subtotal |-> 0]]]

\* a request's outcome: HTTP status, error kind ("" on success), the
\* principal id of the verified token, the orders in the response body;
\* from: the status the order had (or the incoming order carried) before
\* the operation, to: the status asked for, bodyUserId: the "userId" member
\* of the JSON body of a create request
Outcome(op, caller, id, err, out) ==
    [op |-> op, caller |-> caller, id |-> id, from |-> "", to |-> "", bodyUserId |-> 0,
     status |-> IF err = NoError THEN 200 ELSE ErrorHandler(err).status,
     kind |-> err.kind, error |-> IF err = NoError THEN "" ELSE ErrorHandler(err).error,
     out |-> out]

NoOutcome == Outcome("", 0, 0, NoError, <<>>)

\* bearer tokens sent with order requests: access tokens of the principals,
\* a refresh token, and no token
Bearers ==
    {GenerateJWTToken(ServiceConfig, u, Access, 1000).Token : u \in UserIDs}
    \cup {GenerateJWTToken(ServiceConfig, 1, Refresh, 1000).Token, NoToken}

\* request items
Item(p, q, c) == [ProductID |-> p, Quantity |-> q, Price |-> c]

\* userId: a "userId" key of the JSON body, 0 when the body has none; the
\* request structures have no field for it
Body(address, hasItems, items) ==
    [ShippingAddress |-> address, hasItems |-> hasItems, Items |-> items,
     userId |-> 0]

\* request bodies of the create route
CreateBodies ==
    {Body("street 1", TRUE, l) :
        l \in {<<>>, <<Item(1, 2, 3)>>, <<Item(1, 2, 3), Item(2, 1, 5)>>,
               <<Item(1, -1, 3)>>, <<Item(1, 0, 3)>>, <<Item(1, 2, -1)>>,
               <<Item(1, 2, 3), Item(2, 1, 0)>>}}
    \cup {Body("street 1", FALSE, <<>>), Body("", TRUE, <<Item(1, 2, 3)>>)}
    \cup {[Body("street 1", TRUE, <<Item(1, 2, 3)>>) EXCEPT !.userId = u] : u \in UserIDs}

\* orders passed to the use case directly: with subtotals, a total and a
\* status of the caller's choosing
UseCaseOrders ==
    {[ID |-> 0, UserID |-> 1, Status |-> st, TotalAmount |-> t,
      ShippingAddress |-> "street 1", Items |-> l] :
        st \in {"", "paid"}, t \in {0, 99},
        l \in {<<[ProductID |-> 1, Quantity |-> 2, Price |-> 3, Subtotal |-> 7]>>,
               <<[ProductID |-> 1, Quantity |-> 2, Price |-> 3, Subtotal |-> 0],
                 [ProductID |-> 2, Quantity |-> 1, Price |-> 5, Subtotal |-> 50]>>}}

\* statuses asked for on the status route
StatusInputs == validStatuses \cup {"refunded", ""}

OrderInit(d) ==
    /\ deployment = d
    /\ orders = <<>>
    /\ orderRes = NoOutcome

\* a request the AuthJWTMiddleware aborts: no handler runs
Rejected(op, bearer) ==
    LET auth == AuthJWTMiddleware(ServiceConfig, bearer, now)
    IN /\ ~auth.ok
       /\ orderRes' = Outcome(op, 0, 0, auth.err, <<>>)
       /\ UNCHANGED <<deployment, orders>>

\* the "userId" the middleware put into the context of a request it let pass
UserIdOf(bearer) == AuthJWTMiddleware(ServiceConfig, bearer, now).userId

Passed(bearer) == AuthJWTMiddleware(ServiceConfig, bearer, now).ok

\* Controller.CreateOrder (monolith): POST /order/
CreateOrder(bodies) ==
    /\ deployment = "monolith"
    /\ Len(orders) < MaxOrders
    /\ \E bearer \in Bearers :
        \/ Rejected("create", bearer)
        \/ /\ Passed(bearer)
           /\ \E body \in bodies :
                IF ~ControllerBindJSON(body)
                THEN /\ orderRes' = Outcome("create", UserIdOf(bearer), 0,
                                       NewAppError("binding", ValidationError), <<>>)
                     /\ UNCHANGED <<deployment, orders>>
                ELSE /\ orders' = RepositoryCreate(orders,
                                     OrderUseCaseCreate(DomainOrder(UserIdOf(bearer),
                                         body.ShippingAddress, body.Items)))
                     /\ orderRes' = [Outcome("create", UserIdOf(bearer), Len(orders'),
                                             NoError, <<orders'[Len(orders')]>>)
                                         EXCEPT !.bodyUserId = body.userId]
                     /\ UNCHANGED deployment

\* Handler.NewOrder (order service): POST /order/
NewOrder(bodies) ==
    /\ deployment = "service"
    /\ Len(orders) < MaxOrders
    /\ \E bearer \in Bearers :
        \/ Rejected("create", bearer)
        \/ /\ Passed(bearer)
           /\ \E body \in bodies :
                IF ~HandlerBindJSON(body)
                THEN /\ orderRes' = Outcome("create", UserIdOf(bearer), 0,
                                       NewAppError("binding", ValidationError), <<>>)
                     /\ UNCHANGED <<deployment, orders>>
                ELSE /\ orders' = ServiceRepositoryCreate(orders,
                                     OrderUseCaseCreate(DomainOrder(UserIdOf(bearer), "",
                                                                    body.Items)))
                     /\ orderRes' = [Outcome("create", UserIdOf(bearer), Len(orders'),
                                             NoError, <<orders'[Len(orders')]>>)
                                         EXCEPT !.bodyUserId = body.userId]
                     /\ UNCHANGED deployment

\* IOrderUseCase.Create called with an order of the caller's making
UseCaseCreate ==
    \E o \in UseCaseOrders :
        /\ Len(orders) < MaxOrders
        /\ orders' = IF deployment = "monolith"
                     THEN RepositoryCreate(orders, OrderUseCaseCreate(o))
                     ELSE ServiceRepositoryCreate(orders, OrderUseCaseCreate(o))
        /\ orderRes' = [Outcome("usecase-create", o.UserID, Len(orders'), NoError,
                                <<orders'[Len(orders')]>>) EXCEPT !.from = o.Status]
        /\ UNCHANGED deployment

\* Controller.GetOrderByID (monolith): GET /order/:id
ControllerGetOrderByID ==
    /\ deployment = "monolith"
    /\ \E bearer \in Bearers :
        \/ Rejected("get", bearer)
        \/ /\ Passed(bearer)
           /\ \E id \in 1..(Len(orders) + 1) :
                LET got == OrderGetByID(orders, id)
                IN orderRes' = Outcome("get", UserIdOf(bearer), id, got.err,
                                  IF got.err = NoError THEN <<got.order>> ELSE <<>>)
           /\ UNCHANGED <<deployment, orders>>

\* Handler.GetOrderByID (order service): GET /order/:id
HandlerGetOrderByID ==
    /\ deployment = "service"
    /\ \E bearer \in Bearers :
        \/ Rejected("get", bearer)
        \/ /\ Passed(bearer)
           /\ \E id \in 1..(Len(orders) + 1) :
                LET got == OrderGetByID(orders, id)
                IN orderRes' = Outcome("get", UserIdOf(bearer), id, got.err,
                                  IF got.err = NoError THEN <<got.order>> ELSE <<>>)
           /\ UNCHANGED <<deployment, orders>>

\* Controller.GetMyOrders (monolith): GET /order/
GetMyOrders ==
    /\ deployment = "monolith"
    /\ \E bearer \in Bearers :
        \/ Rejected("list", bearer)
        \/ /\ Passed(bearer)
           /\ orderRes' = Outcome("list", UserIdOf(bearer), 0, NoError,
                                  GetByUserID(orders, UserIdOf(bearer)))
           /\ UNCHANGED <<deployment, orders>>

\* Handler.GetAllOrders (order service): GET /order/
GetAllOrders ==
    /\ deployment = "service"
    /\ \E bearer \in Bearers :
        \/ Rejected("list", bearer)
        \/ /\ Passed(bearer)
           /\ orderRes' = Outcome("list", UserIdOf(bearer), 0, NoError, orders)
           /\ UNCHANGED <<deployment, orders>>

\* Controller.UpdateOrderStatus (monolith): PUT /order/:id/status
ControllerUpdateOrderStatus(statuses) ==
    /\ deployment = "monolith"
    /\ \E bearer \in Bearers :
        \/ Rejected("status", bearer)
        \/ /\ Passed(bearer)
           /\ \E id \in 1..(Len(orders) + 1), status \in statuses :
                LET upd == RepositoryUpdateStatus(orders, id, status)
                    res(err, out) ==
                        [Outcome("status", UserIdOf(bearer), id, err, out)
                            EXCEPT !.from = OrderGetByID(orders, id).order.Status,
                                   !.to = status]
                IN IF ~StatusBindJSON(status)
                   THEN /\ orderRes' = res(NewAppError("binding", ValidationError), <<>>)
                        /\ UNCHANGED orders
                   ELSE IF status \notin validStatuses
                   THEN /\ orderRes' = res(NewAppError("invalid status", ValidationError),
                                           <<>>)
                        /\ UNCHANGED orders
                   ELSE /\ orders' = upd.rows
                        /\ orderRes' = res(upd.err,
                                           IF upd.err = NoError THEN <<upd.order>> ELSE <<>>)
           /\ UNCHANGED deployment

\* Handler.UpdateOrderStatus (order service): PUT /order/:id/status
HandlerUpdateOrderStatus(statuses) ==
    /\ deployment = "service"
    /\ \E bearer \in Bearers :
        \/ Rejected("status", bearer)
        \/ /\ Passed(bearer)
           /\ \E id \in 1..(Len(orders) + 1), status \in statuses :
                LET upd == RepositoryUpdateStatus(orders, id, status)
                    res(err, out) ==
                        [Outcome("status", UserIdOf(bearer), id, err, out)
                            EXCEPT !.from = OrderGetByID(orders, id).order.Status,
                                   !.to = status]
                IN IF ~StatusBindJSON(status)
                   THEN /\ orderRes' = res(NewAppError("binding", ValidationError), <<>>)
                        /\ UNCHANGED orders
                   ELSE /\ orders' = upd.rows
                        /\ orderRes' = res(upd.err,
                                           IF upd.err = NoError THEN <<upd.order>> ELSE <<>>)
           /\ UNCHANGED deployment

-----------------------------------------------------------------------------
(* Routers.  gin builds the handler chain of a route when the route is     *)
(* registered, from the middleware its group holds at that moment: a Use   *)
(* guards the routes registered after it, not the ones before.             *)

Use == [op |-> "Use", group |-> "", method |-> "", path |-> ""]

Handle(group, method, path) ==
    [op |-> "Handle", group |-> group, method |-> method, path |-> path]

\* the registrations of each router group, in source order
UserServiceGroups ==
    {<<Handle("auth", "POST", "/login"), Handle("auth", "POST", "/register"),
       Handle("auth", "POST", "/access-token")>>,
     <<Use, Handle("user", "GET", "/"), Handle("user", "POST", "/"),
       Handle("user", "GET", "/:id"), Handle("user", "PUT", "/:id"),
       Handle("user", "DELETE", "/:id")>>}

CatalogServiceGroups ==
    {<<Handle("category", "GET", "/"), Handle("category", "GET", "/:id"),
       Use, Handle("category", "POST", "/"), Handle("category", "PUT", "/:id"),
       Handle("category", "DELETE", "/:id")>>,
     <<Handle("product", "GET", "/"), Handle("product", "GET", "/:id"),
       Handle("product", "GET", "/category/:categoryId"),
       Use, Handle("product", "POST", "/"), Handle("product", "PUT", "/:id"),
       Handle("product", "DELETE", "/:id")>>}

OrderServiceGroups ==
    {<<Use, Handle("order", "GET", "/"), Handle("order", "POST", "/"),
       Handle("order", "GET", "/:id"), Handle("order", "PUT", "/:id/status")>>}

CategoryRoutes ==
    <<Handle("category", "GET", "/"), Handle("category", "GET", "/:id"),
      Use, Handle("category", "POST", "/"), Handle("category", "PUT", "/:id"),
      Handle("category", "DELETE", "/:id")>>

ProductRoutes ==
    <<Handle("product", "GET", "/"), Handle("product", "GET", "/:id"),
      Handle("product", "GET", "/category/:categoryId"),
      Use, Handle("product", "POST", "/"), Handle("product", "PUT", "/:id"),
      Handle("product", "DELETE", "/:id")>>

OrderRoutes ==
    <<Use, Handle("order", "POST", "/"), Handle("order", "GET", "/"),
      Handle("order", "GET", "/:id"), Handle("order", "PUT", "/:id/status")>>

Routers ==
    [user     |-> UserServiceGroups,
     catalog  |-> CatalogServiceGroups,
     order    |-> OrderServiceGroups,
     monolith |-> {CategoryRoutes, ProductRoutes, OrderRoutes}]

\* whether the chain of the route registered by step i holds the middleware
GuardedNever(steps, i) == FALSE

Guarded(steps, i) == \E j \in 1..(i - 1) : steps[j].op = "Use"

\* the routes of a router: group, method, path, and whether guarded
Routes(groups) ==
    UNION {{[group |-> g[i].group, method |-> g[i].method, path |-> g[i].path,
             guarded |-> Guarded(g, i)] :
                i \in {k \in DOMAIN g : g[k].op = "Handle"}} : g \in groups}

\* Authorization headers of requests: the bearer tokens of the order
\* requests and an access token signed with a key that is not the service's
RouteBearers ==
    Bearers \cup {SignedString(HS256, [id |-> Num(1), type |-> Str(Access),
                                       exp |-> Num(2000)], "guess")}

NoRouted == [service |-> "", group |-> "", method |-> "", path |-> "",
             bearer |-> NoToken, ran |-> FALSE, status |-> 0, kind |-> ""]

RouteInit == routeRes = NoRouted

\* a request served by a router: the middleware of the chain, if any, then
\* the handler; status and kind are those of the middleware's abort
Serve ==
    \E svc \in DOMAIN Routers : \E r \in Routes(Routers[svc]) :
        \E bearer \in RouteBearers :
            LET auth    == AuthJWTMiddleware(ServiceConfig, bearer, now)
                aborted == r.guarded /\ ~auth.ok
            IN routeRes' =
                 [service |-> svc, group |-> r.group, method |-> r.method,
                  path |-> r.path, bearer |-> bearer, ran |-> ~aborted,
                  status |-> IF aborted THEN ErrorHandler(auth.err).status ELSE 0,
                  kind |-> IF aborted THEN auth.err.kind ELSE ""]

-----------------------------------------------------------------------------
(* The boundary middleware over the errors a request left in c.Errors *)

\* errors a handler can leave: of each kind with its default message, of
\* each kind with a message of its own, and one that is no AppError
BoundaryErrors ==
    {NewAppErrorWithType(k) : k \in ErrorKinds}
    \cup {NewAppError("invalid id", k) : k \in ErrorKinds}
    \cup {ErrorsNew("invalid token type")}

NoWritten == [done |-> FALSE, status |-> 0, error |-> ""]

\* no request at the boundary
BoundaryIdle ==
    /\ ginErrors = <<>>
    /\ written = NoWritten

\* a request whose handlers have returned, leaving up to two errors
BoundaryInit ==
    /\ ginErrors \in {<<>>} \cup {<<e>> : e \in BoundaryErrors}
                     \cup {<<e, f>> : e \in BoundaryErrors, f \in BoundaryErrors}
    /\ written = NoWritten

\* ErrorHandler after c.Next(): writes for the last error, nothing without one
ErrorHandlerAfterNext ==
    /\ ~written.done
    /\ written' = IF Len(ginErrors) > 0
                  THEN [done |-> TRUE,
                        status |-> ErrorHandler(ginErrors[Len(ginErrors)]).status,
                        error |-> ErrorHandler(ginErrors[Len(ginErrors)]).error]
                  ELSE [done |-> TRUE, status |-> 0, error |-> ""]
    /\ UNCHANGED ginErrors

-----------------------------------------------------------------------------
(* Catalog: the product repository and the product handlers.  The monolith *)
(* and the catalog service run the same statements; prices are integers    *)
(* here, timestamps are whole seconds.                                     *)

MaxProducts == 2

SKUs == {"s1", "s2"}

NoProduct == [ID |-> 0, Name |-> "", SKU |-> "", Price |-> 0, Stock |-> 0,
              CategoryID |-> 0, IsActive |-> FALSE, UpdatedAt |-> 0]

\* the column of table "products" behind each field a map can name
ProductColumns ==
    [name |-> "Name", sku |-> "SKU", price |-> "Price", stock |-> "Stock",
     is_active |-> "IsActive"]

\* NewProductRequest: name, sku, price and categoryId are required
ProductBindJSON(req) ==
    req.Name # "" /\ req.SKU # "" /\ req.Price # 0 /\ req.CategoryID # 0

\* bodies of POST /product/
ProductRequests ==
    {[Name |-> "n1", SKU |-> k, Price |-> 3, Stock |-> 0, CategoryID |-> 1,
      IsActive |-> TRUE] : k \in SKUs \cup {""}}

\* bodies of PUT /product/:id, as the maps BindJSONMap decodes
ProductMaps ==
    {[stock |-> 5], [name |-> "n2"], [sku |-> "s2"], [name |-> "n2", stock |-> 5],
     [colour |-> "red"]}

\* bodies of POST /product/ in two categories, one with a price below zero
ListedRequests ==
    {[Name |-> "n1", SKU |-> k, Price |-> c, Stock |-> 0, CategoryID |-> g,
      IsActive |-> TRUE] : k \in SKUs, c \in {3, -1}, g \in {1, 2}}

\* bodies of PUT /product/:id that withdraw a product or set its stock
\* below zero
ListedMaps == {[is_active |-> FALSE], [stock |-> -5]}

\* Repository.GetAll (products): the rows whose is_active is true
ProductGetAllUnfiltered(rows) == rows

ProductGetAll(rows) == {x \in rows : x.IsActive}

\* Repository.GetByCategory: the active rows of the category
ProductGetByCategory(rows, categoryID) ==
    {x \in rows : x.CategoryID = categoryID /\ x.IsActive}

\* Repository.GetByID (products)
ProductGetByID(rows, id) ==
    IF \E x \in rows : x.ID = id
    THEN [product |-> CHOOSE x \in rows : x.ID = id, err |-> NoError]
    ELSE [product |-> NoProduct, err |-> NewAppErrorWithType(NotFound)]

\* an insert into a table that has no unique index on sku
ProductRepositoryCreateNoIndex(rows, nextID, d, clock) ==
    LET row == [ID |-> nextID, Name |-> d.Name, SKU |-> d.SKU, Price |-> d.Price,
                Stock |-> d.Stock, CategoryID |-> d.CategoryID,
                IsActive |-> IF d.IsActive THEN d.IsActive ELSE TRUE,
                UpdatedAt |-> clock]
    IN [rows |-> rows \cup {row}, product |-> row, err |-> NoError]

\* Repository.Create (products): the unique index on sku rejects a second
\* row with the same sku, and the error is classified by its number; a zero
\* is_active takes the column default
ProductRepositoryCreate(rows, nextID, d, clock) ==
    IF \E x \in rows : x.SKU = d.SKU
    THEN [rows |-> rows, product |-> NoProduct,
          err |-> IF UniqueViolationNumber = 1062
                  THEN NewAppErrorWithType(ResourceAlreadyExists)
                  ELSE NewAppErrorWithType(UnknownError)]
    ELSE LET row == [ID |-> nextID, Name |-> d.Name, SKU |-> d.SKU, Price |-> d.Price,
                     Stock |-> d.Stock, CategoryID |-> d.CategoryID,
                     IsActive |-> IF d.IsActive THEN d.IsActive ELSE TRUE,
                     UpdatedAt |-> clock]
         IN [rows |-> rows \cup {row}, product |-> row, err |-> NoError]

\* a write of every column, named or not
UpdatesAll(row, m, clock) ==
    [f \in DOMAIN row |->
        IF \E col \in DOMAIN m : ProductColumns[col] = f
        THEN m[CHOOSE col \in DOMAIN m : ProductColumns[col] = f]
        ELSE IF f = "UpdatedAt" THEN clock
        ELSE IF f = "ID" THEN row[f] ELSE NoProduct[f]]

\* the row after DB.Model(&p).Updates(m): the named columns and updated_at
Updates(row, m, clock) ==
    [f \in DOMAIN row |->
        IF \E col \in DOMAIN m : ProductColumns[col] = f
        THEN m[CHOOSE col \in DOMAIN m : ProductColumns[col] = f]
        ELSE IF f = "UpdatedAt" THEN clock ELSE row[f]]

\* Repository.Update (products).  Model(&p) with p.ID = 0 gives the
\* statement no WHERE clause and gorm refuses it; a column the table does
\* not have or a sku another row holds fails the statement; an id of no row
\* updates nothing and the reload finds nothing
ProductRepositoryUpdate(rows, id, m, clock) ==
    LET failed(kind) == [rows |-> rows, product |-> NoProduct,
                         err |-> NewAppErrorWithType(kind)]
    IN IF id = 0 THEN failed(UnknownError)
       ELSE IF ~(DOMAIN m \subseteq DOMAIN ProductColumns) THEN failed(UnknownError)
       ELSE IF ~\E x \in rows : x.ID = id THEN failed(NotFound)
       ELSE IF "sku" \in DOMAIN m /\ \E x \in rows : x.ID # id /\ x.SKU = m.sku
       THEN failed(UnknownError)
       ELSE LET old == CHOOSE x \in rows : x.ID = id
                new == Updates(old, m, clock)
            IN [rows |-> (rows \ {old}) \cup {new}, product |-> new, err |-> NoError]

\* Repository.Delete (products)
ProductRepositoryDeleteSoft(rows, id) ==
    IF \E x \in rows : x.ID = id
    THEN [rows |-> {IF x.ID = id THEN [x EXCEPT !.IsActive = FALSE] ELSE x : x \in rows},
          err |-> NoError]
    ELSE [rows |-> rows, err |-> NewAppErrorWithType(NotFound)]

ProductRepositoryDelete(rows, id) ==
    IF \E x \in rows : x.ID = id
    THEN [rows |-> {x \in rows : x.ID # id}, err |-> NoError]
    ELSE [rows |-> rows, err |-> NewAppErrorWithType(NotFound)]

\* a product request's outcome: the id and map of the request, whether the
\* store held the id (for a creation: the sku) when it came, the response
ProductOutcome(op, id, m, found, err, out) ==
    [op |-> op, id |-> id, m |-> m, found |-> found,
     status |-> IF err = NoError THEN 200 ELSE ErrorHandler(err).status,
     kind |-> err.kind, error |-> IF err = NoError THEN "" ELSE ErrorHandler(err).error,
     out |-> out, list |-> {}]

NoMap == [col \in {} |-> 0]

CatalogInit ==
    /\ products = {}
    /\ nextProductID = 1
    /\ catalogRes = ProductOutcome("", 0, NoMap, FALSE, NoError, NoProduct)

\* ids asked for: the ids given out so far, zero and one more
ProductIDs == 0..nextProductID

\* Handler.NewProduct: POST /product/ (past the middleware)
NewProduct(requests) ==
    \E req \in requests :
        /\ nextProductID <= MaxProducts
        /\ IF ~ProductBindJSON(req)
           THEN /\ catalogRes' = ProductOutcome("create", 0, NoMap, FALSE,
                                    NewAppError("binding", ValidationError), NoProduct)
                /\ UNCHANGED <<products, nextProductID>>
           ELSE LET r == ProductRepositoryCreate(products, nextProductID, req, now)
                IN /\ products' = r.rows
                   /\ nextProductID' = IF r.err = NoError THEN nextProductID + 1
                                                          ELSE nextProductID
                   /\ catalogRes' = ProductOutcome("create", r.product.ID, NoMap,
                                        \E x \in products : x.SKU = req.SKU,
                                        r.err, r.product)

\* Handler.GetProductByID: GET /product/:id
GetProductByID ==
    \E id \in ProductIDs :
        LET r == ProductGetByID(products, id)
        IN /\ catalogRes' = ProductOutcome("get", id, NoMap,
                                \E x \in products : x.ID = id, r.err, r.product)
           /\ UNCHANGED <<products, nextProductID>>

\* Handler.UpdateProduct: PUT /product/:id (past the middleware)
UpdateProduct(maps) ==
    \E id \in ProductIDs, m \in maps :
        LET r == ProductRepositoryUpdate(products, id, m, now)
        IN /\ products' = r.rows
           /\ catalogRes' = ProductOutcome("update", id, m,
                                \E x \in products : x.ID = id, r.err, r.product)
           /\ UNCHANGED nextProductID

\* Handler.DeleteProduct: DELETE /product/:id (past the middleware)
DeleteProduct ==
    \E id \in ProductIDs :
        LET r == ProductRepositoryDelete(products, id)
        IN /\ products' = r.rows
           /\ catalogRes' = ProductOutcome("delete", id, NoMap,
                                \E x \in products : x.ID = id, r.err, NoProduct)
           /\ UNCHANGED nextProductID

\* Handler.GetAllProducts: GET /product/
GetAllProducts ==
    /\ catalogRes' = [ProductOutcome("list", 0, NoMap, FALSE, NoError, NoProduct)
                        EXCEPT !.list = ProductGetAll(products)]
    /\ UNCHANGED <<products, nextProductID>>

\* Handler.GetProductsByCategory: GET /product/category/:categoryId
GetProductsByCategory ==
    \E c \in 1..2 :
        /\ catalogRes' = [ProductOutcome("by-category", c, NoMap, FALSE, NoError, NoProduct)
                            EXCEPT !.list = ProductGetByCategory(products, c)]
        /\ UNCHANGED <<products, nextProductID>>

\* a second passes on the clock
Second ==
    /\ Tick
    /\ now' = now + 1

-----------------------------------------------------------------------------
(* The order repositories over a store whose calls can fail.  fault is the *)
(* number of the store call of the operation that fails, 0 for none.       *)

\* Repository.Create of the monolith: DB.Create, then the reload with items
RepositoryCreateFailing(rows, o, fault) ==
    IF fault = 1
    THEN [rows |-> rows, order |-> NoOrder, err |-> NewAppErrorWithType(UnknownError)]
    ELSE LET after == RepositoryCreate(rows, o)
         IN IF fault = 2
            THEN [rows |-> after, order |-> NoOrder,
                  err |-> NewAppErrorWithType(UnknownError)]
            ELSE [rows |-> after, order |-> after[Len(after)], err |-> NoError]

\* Repository.Create of the order service: DB.Create, then a reload whose
\* error is not read; created stays the zero Order when the reload fails
ServiceRepositoryCreateFailing(rows, o, fault) ==
    IF fault = 1
    THEN [rows |-> rows, order |-> NoOrder, err |-> NewAppErrorWithType(UnknownError)]
    ELSE LET after == ServiceRepositoryCreate(rows, o)
         IN IF fault = 2
            THEN [rows |-> after, order |-> NoOrder, err |-> NoError]
            ELSE [rows |-> after, order |-> after[Len(after)], err |-> NoError]

\* Repository.UpdateStatus of the monolith: the Update, then the reload
RepositoryUpdateStatusFailing(rows, id, status, fault) ==
    IF fault = 1
    THEN [rows |-> rows, order |-> NoOrder, err |-> NewAppErrorWithType(UnknownError)]
    ELSE LET r == RepositoryUpdateStatus(rows, id, status)
         IN IF fault = 2
            THEN [rows |-> r.rows, order |-> NoOrder,
                  err |-> NewAppErrorWithType(NotFound)]
            ELSE r

\* Repository.UpdateStatus of the order service: First, the Update, then a
\* reload whose error is not read; o is then the row First loaded (without
\* its items) with the status Update assigned
ServiceRepositoryUpdateStatusFailing(rows, id, status, fault) ==
    IF fault = 1
    THEN [rows |-> rows, order |-> NoOrder, err |-> NewAppErrorWithType(UnknownError)]
    ELSE IF id \notin DOMAIN rows
    THEN [rows |-> rows, order |-> NoOrder, err |-> NewAppErrorWithType(NotFound)]
    ELSE IF fault = 2
    THEN [rows |-> rows, order |-> NoOrder, err |-> NewAppErrorWithType(UnknownError)]
    ELSE LET r == RepositoryUpdateStatus(rows, id, status)
         IN IF fault = 3
            THEN [rows |-> r.rows, order |-> [r.order EXCEPT !.Items = <<>>],
                  err |-> NoError]
            ELSE r

\* a repository call's record: the operation, the store call that failed,
\* the error and the order returned
StoreResult(op, fault, r) ==
    [op |-> op, fault |-> fault, err |-> r.err, order |-> r.order]

NoStoreResult == StoreResult("", 0, [err |-> NoError, order |-> NoOrder])

StoreIdle == storeRes = NoStoreResult

\* OrderUseCase.Create over a repository whose store calls can fail
CreateUnderFaults ==
    /\ Len(orders) < MaxOrders
    /\ \E u \in UserIDs, fault \in 0..2 :
        LET o == OrderUseCaseCreate(DomainOrder(u, "street 1", <<Item(1, 2, 3)>>))
            r == IF deployment = "monolith"
                 THEN RepositoryCreateFailing(orders, o, fault)
                 ELSE ServiceRepositoryCreateFailing(orders, o, fault)
        IN /\ orders' = r.rows
           /\ storeRes' = StoreResult("create", fault, r)
    /\ UNCHANGED <<deployment, orderRes>>

\* OrderUseCase.UpdateStatus over a repository whose store calls can fail
UpdateStatusUnderFaults ==
    /\ \E id \in 1..(Len(orders) + 1), status \in validStatuses, fault \in 0..3 :
        /\ (deployment = "monolith" => fault <= 2)
        /\ LET r == IF deployment = "monolith"
                    THEN RepositoryUpdateStatusFailing(orders, id, status, fault)
                    ELSE ServiceRepositoryUpdateStatusFailing(orders, id, status, fault)
           IN /\ orders' = r.rows
              /\ storeRes' = StoreResult("status", fault, r)
    /\ UNCHANGED <<deployment, orderRes>>

-----------------------------------------------------------------------------
(* The life of a program: startup against the store, then requests through *)
(* the chain gin.Recovery, ErrorHandler, handler.                          *)

MaxRequests == 3

Programs == {"monolith", "user", "catalog", "order"}

\* what SetupDependencies and the main functions construct over the store
Components == {"repositories", "usecases", "controllers"}

\* psql.ConnectDB: gorm.Open pings the store, an unreachable store is an error
ConnectDB(storeUp) == [db |-> storeUp, err |-> ~storeUp]

\* psql.InitPSQLDB of the monolith
InitPSQLDB(storeUp) == ConnectDB(storeUp)

\* di.SetupDependencies: the application context, or the error of the store
SetupDependenciesEager(storeUp) ==
    [ctx |-> Components, err |-> InitPSQLDB(storeUp).err]

SetupDependencies(storeUp) ==
    IF InitPSQLDB(storeUp).err
    THEN [ctx |-> {}, err |-> TRUE]
    ELSE [ctx |-> Components, err |-> FALSE]

\* main of a service: ConnectDB, log.Panic on its error, else the wiring
ServiceMain(storeUp) ==
    IF ConnectDB(storeUp).err
    THEN [ctx |-> {}, err |-> TRUE]
    ELSE [ctx |-> Components, err |-> FALSE]

NoBoot == [phase |-> "", storeUp |-> FALSE, err |-> FALSE, ctx |-> {}]

ServiceIdle ==
    /\ program = ""
    /\ boot = NoBoot
    /\ reqLog = <<>>

\* a program about to start, the store reachable or not
ServiceInit ==
    /\ program \in Programs
    /\ \E up \in BOOLEAN : boot = [NoBoot EXCEPT !.phase = "start", !.storeUp = up]
    /\ reqLog = <<>>

\* main up to ListenAndServe: the program serves if the startup gave no
\* error and ends if it did
Start ==
    /\ boot.phase = "start"
    /\ LET r == IF program = "monolith" THEN SetupDependencies(boot.storeUp)
                                        ELSE ServiceMain(boot.storeUp)
       IN boot' = [boot EXCEPT !.phase = IF r.err THEN "exited" ELSE "serving",
                               !.err = r.err, !.ctx = r.ctx]
    /\ UNCHANGED <<program, reqLog>>

\* what a request runs into
Causes == {"ok", "invalid input", "store error", "token check", "untyped error",
           "panic"}

\* the handlers below ErrorHandler: the error left in c.Errors, or a panic
\* (the type assertion on the user id)
RunHandlers(cause) ==
    [panicked |-> cause = "panic",
     err |-> CASE cause = "invalid input" -> NewAppError("binding", ValidationError)
               [] cause = "store error"   -> NewAppErrorWithType(UnknownError)
               [] cause = "token check"   -> NewAppErrorWithType(NotAuthenticated)
               [] cause = "untyped error" -> ErrorsNew("json: cannot unmarshal")
               [] OTHER                   -> NoError]

\* ErrorHandler around them: a panic passes through it, an error is answered
ThroughErrorHandler(h) ==
    IF h.panicked THEN [panicked |-> TRUE, status |-> 0, error |-> ""]
    ELSE IF h.err = NoError THEN [panicked |-> FALSE, status |-> 200, error |-> ""]
    ELSE [panicked |-> FALSE, status |-> ErrorHandler(h.err).status,
          error |-> ErrorHandler(h.err).error]

\* gin.Recovery around that: a panic is recovered and answered with 500
RecoveryAbsent(r) == r

Recovery(r) ==
    IF r.panicked THEN [panicked |-> FALSE, status |-> 500, error |-> ""] ELSE r

\* a request served by the engine
HandleRequest ==
    /\ boot.phase = "serving"
    /\ Len(reqLog) < MaxRequests
    /\ \E cause \in Causes :
        LET r == Recovery(ThroughErrorHandler(RunHandlers(cause)))
        IN reqLog' = Append(reqLog, [cause |-> cause, panicked |-> r.panicked,
                                     status |-> r.status, error |-> r.error])
    /\ UNCHANGED <<program, boot>>

-----------------------------------------------------------------------------
(* The gateway: services/gateway/main.go.  A path is the sequence of its
   segments, "/v1/auth/login" being <<"v1", "auth", "login">>; a trailing
   slash is an empty last segment, "/v1/user/" being <<"v1", "user", "">>,
   and "/" is the empty sequence. *)

GatewayMethods == {"GET", "POST", "PUT", "DELETE", "OPTIONS"}

GatewayPaths ==
    { <<>>, <<"v1", "health">>,
      <<"v1", "auth", "login">>, <<"v1", "user", "">>, <<"v1", "user">>,
      <<"v1", "users", "1">>, <<"v1", "category", "1">>,
      <<"v1", "product", "">>, <<"v1", "catalog", "docs">>,
      <<"v1", "order", "1">>, <<"v1", "other", "x">> }

\* What the Authorization header holds: nothing, an access token, or a
\* string that is no token of the system.
GatewayAuthorizations == {"", "Bearer access", "Bearer bogus"}

\* The Origin header: none, the gateway's own host, or another origin.
GatewayHost    == "http://gateway"
GatewayOrigins == {"", GatewayHost, "http://shop"}

GatewayRequest(method, path, authorization, origin) ==
    [method |-> method, path |-> path, authorization |-> authorization,
     origin |-> origin]

\* The services behind the gateway; the default URLs carry no path.
GatewayTargets == [user |-> <<>>, catalog |-> <<>>, order |-> <<>>]

\* main.go 93-106: the catch-all routes of the group /v1 and the proxy of each.
GatewayRoutes ==
    [auth |-> "user", user |-> "user",
     category |-> "catalog", product |-> "catalog", catalog |-> "catalog",
     order |-> "order"]

\* What gin's router finds for a request: a handler, a trailing-slash
\* redirect (a catch-all route asked for without its slash), or nothing.
GatewayMatch(method, path) ==
    IF path = <<>>
    THEN IF method = "GET" THEN "root" ELSE "none"
    ELSE IF path = <<"v1", "health">>
    THEN IF method = "GET" THEN "health" ELSE "none"
    ELSE IF Len(path) >= 3 /\ path[1] = "v1" /\ path[2] \in DOMAIN GatewayRoutes
    THEN "proxy"
    ELSE IF Len(path) = 2 /\ path[1] = "v1" /\ path[2] \in DOMAIN GatewayRoutes
    THEN "redirect"
    ELSE "none"

\* The cors middleware: a request without Origin, or from the gateway's own
\* host, passes; every origin is allowed; a preflight is answered here.
CorsAborts(req) ==
    /\ req.origin # ""
    /\ req.origin # GatewayHost
    /\ req.method = "OPTIONS"

\* A proxyHandler that would drop the group prefix.
ProxyHandlerPathStripped(path) == SubSeq(path, Len(<<"v1">>) + 1, Len(path))

\* proxyHandler: "/v1" + Path[len("/v1"):].
ProxyHandlerPath(path) == <<"v1">> \o SubSeq(path, Len(<<"v1">>) + 1, Len(path))

NoForward == [service |-> "", method |-> "", path |-> <<>>, authorization |-> ""]

\* createReverseProxy: the request goes to the target with its method and
\* headers, its path joined to the target's; an unreachable target is a 502.
ReverseProxy(service, req, up) ==
    [forwarded |-> [service       |-> service,
                    method        |-> req.method,
                    path          |-> GatewayTargets[service] \o req.path,
                    authorization |-> req.authorization],
     status    |-> IF up THEN "upstream" ELSE "502"]

proxyHandler(service, req, up) ==
    ReverseProxy(service, [req EXCEPT !.path = ProxyHandlerPath(req.path)], up)

\* The engine: the router first, then Recovery, cors, the logger and the
\* route's handler.
GatewayServeHTTP(req, up) ==
    LET match == GatewayMatch(req.method, req.path) IN
    IF match = "redirect"
    THEN [forwarded |-> NoForward,
          status    |-> IF req.method = "GET" THEN "301" ELSE "307"]
    ELSE IF CorsAborts(req)
    THEN [forwarded |-> NoForward, status |-> "204"]
    ELSE IF match = "proxy"
    THEN proxyHandler(GatewayRoutes[req.path[2]], req, up)
    ELSE IF match = "none"
    THEN [forwarded |-> NoForward, status |-> "404"]
    ELSE [forwarded |-> NoForward, status |-> "200"]

NoGatewayRes ==
    [req |-> GatewayRequest("", <<>>, "", ""), up |-> FALSE,
     forwarded |-> NoForward, status |-> ""]

GatewayIdle == gatewayRes = NoGatewayRes

GatewayServe ==
    \E method \in GatewayMethods, path \in GatewayPaths,
       authorization \in GatewayAuthorizations, origin \in GatewayOrigins,
       up \in BOOLEAN :
        LET req == GatewayRequest(method, path, authorization, origin)
            out == GatewayServeHTTP(req, up)
        IN /\ gatewayRes' = [req |-> req, up |-> up,
                             forwarded |-> out.forwarded, status |-> out.status]


-----------------------------------------------------------------------------
(* AccessTokenByRefreshToken of the user service *)

\* a use case that would issue a new refresh token with each call
AccessTokenByRefreshTokenRotating(rows, cfg, clock, refreshToken) ==
    LET verify == GetClaimsAndVerifyToken(cfg, refreshToken, Refresh, clock)
        fail(e) == [user |-> NoUser, tokens |-> NoTokens, err |-> e]
    IN IF verify.err # NoError THEN fail(verify.err)
       ELSE LET got == UserGetByID(rows, verify.claims.id.n)
                accessToken == GenerateJWTToken(cfg, got.user.ID, Access, clock)
                renewed     == GenerateJWTToken(cfg, got.user.ID, Refresh, clock)
            IN IF got.err # NoError THEN fail(got.err)
               ELSE [user |-> got.user,
                     tokens |-> [AccessToken |-> accessToken.Token,
                                 RefreshToken |-> renewed.Token,
                                 ExpirationAccessDateTime |-> accessToken.ExpirationTime,
                                 ExpirationRefreshDateTime |-> renewed.ExpirationTime],
                     err |-> NoError]

\* AuthUseCase.AccessTokenByRefreshToken: (user, tokens, err)
AccessTokenByRefreshToken(rows, cfg, clock, refreshToken) ==
    LET claimsMap == GetClaimsAndVerifyToken(cfg, refreshToken, Refresh, clock)
        fail(e) == [user |-> NoUser, tokens |-> NoTokens, err |-> e]
    IN IF claimsMap.err # NoError THEN fail(claimsMap.err)
       ELSE LET userID == claimsMap.claims.id.n
                got    == UserGetByID(rows, userID)
            IN IF got.err # NoError THEN fail(got.err)
               ELSE LET accessToken == GenerateJWTToken(cfg, got.user.ID, Access, clock)
                        expTime     == claimsMap.claims.exp.n
                    IN IF accessToken.err # NoError THEN fail(accessToken.err)
                       ELSE [user |-> got.user,
                             tokens |-> [AccessToken |-> accessToken.Token,
                                         RefreshToken |-> refreshToken,
                                         ExpirationAccessDateTime |-> accessToken.ExpirationTime,
                                         ExpirationRefreshDateTime |-> expTime],
                             err |-> NoError]

NoRefresh == [done |-> FALSE, presented |-> NoToken, at |-> 0, user |-> NoUser,
              tokens |-> NoTokens, err |-> NoError, status |-> 0]

RefreshIdle == refreshRes = NoRefresh

\* the token strings a client can put into the request: what the last login
\* and the last refresh returned, a forged one, or none
RefreshPresentable ==
    { loginRes.resp.tokens.RefreshToken, loginRes.resp.tokens.AccessToken,
      refreshRes.tokens.RefreshToken, refreshRes.tokens.AccessToken,
      SignedString(HS256, [id |-> Num(1), type |-> Str(Refresh),
                           exp |-> Num(now + SecondsPerHour)], "guess"),
      NoToken }

\* Handler.GetAccessTokenByRefreshToken: POST /auth/access-token
GetAccessTokenByRefreshToken ==
    \E r \in RefreshPresentable :
        LET bound == r # NoToken
            out == IF bound
                   THEN AccessTokenByRefreshToken(users, ServiceConfig, now, r)
                   ELSE [user |-> NoUser, tokens |-> NoTokens,
                         err |-> NewAppError("binding", ValidationError)]
        IN /\ refreshRes' = [done |-> TRUE, presented |-> r, at |-> now,
                             user |-> out.user, tokens |-> out.tokens,
                             err |-> out.err,
                             status |-> IF out.err = NoError THEN 200
                                        ELSE ErrorHandler(out.err).status]

-----------------------------------------------------------------------------
(* Concurrent creations *)

(* Each request runs on a goroutine of its own.  A creation is three steps:
   the handler binds the body, the repository's one INSERT reaches the store,
   which runs it as one statement against the unique index, and the handler
   writes the response.  The steps of different requests interleave freely. *)

MaxRacers == 3

Racers == 1..MaxRacers

NoRacer == [pc |-> "idle", req |-> NoProduct, err |-> NoError,
            product |-> NoProduct, status |-> 0]

RaceIdle == racers = [p \in Racers |-> NoRacer]

\* Handler.NewProduct up to the use case: BindJSON of the body
RaceBind(p) ==
    \E req \in ProductRequests :
        /\ racers[p].pc = "idle"
        /\ racers' = [racers EXCEPT ![p] =
                IF ProductBindJSON(req)
                THEN [NoRacer EXCEPT !.pc = "bound", !.req = req]
                ELSE [NoRacer EXCEPT !.pc = "stored", !.req = req,
                        !.err = NewAppError("binding", ValidationError)]]
        /\ UNCHANGED <<products, nextProductID, catalogRes>>

\* Repository.Create: r.DB.Create(p), one INSERT
RaceInsert(p) ==
    /\ racers[p].pc = "bound"
    /\ LET r == ProductRepositoryCreate(products, nextProductID, racers[p].req, now)
       IN /\ products' = r.rows
          /\ nextProductID' = IF r.err = NoError THEN nextProductID + 1
                                                 ELSE nextProductID
          /\ racers' = [racers EXCEPT ![p].pc = "stored", ![p].err = r.err,
                                      ![p].product = r.product]
    /\ UNCHANGED catalogRes

\* Handler.NewProduct after the use case: ctx.Error or ctx.JSON
RaceRespond(p) ==
    /\ racers[p].pc = "stored"
    /\ racers' = [racers EXCEPT ![p].pc = "done",
                    ![p].status = IF racers[p].err = NoError THEN 200
                                  ELSE ErrorHandler(racers[p].err).status]
    /\ UNCHANGED <<products, nextProductID, catalogRes>>

-----------------------------------------------------------------------------
(* Specifications *)

\* the token service alone
\* the parts a specification leaves alone
RestIdle == StoreIdle /\ ServiceIdle /\ GatewayIdle /\ RefreshIdle /\ RaceIdle

RestInit == RouteInit /\ BoundaryIdle /\ CatalogInit /\ RestIdle

TokenSpecInit == TokenInit /\ UserInit /\ OrderInit("monolith") /\ RestInit

TokenNext ==
    \/ Tick /\ UNCHANGED <<userVars, orderVars, routeVars, boundaryVars, catalogVars, restVars>>
    \/ Generate /\ UNCHANGED <<userVars, orderVars, routeVars, boundaryVars, catalogVars, restVars>>
    \/ VerifyIssued /\ UNCHANGED <<userVars, orderVars, routeVars, boundaryVars, catalogVars, restVars>>
    \/ VerifyPresented /\ UNCHANGED <<userVars, orderVars, routeVars, boundaryVars, catalogVars, restVars>>

TokenSpec == TokenSpecInit /\ [][TokenNext]_vars

\* the services run at a fixed instant with a fixed JWT configuration
ServiceClock ==
    /\ now = 1000
    /\ ticks = 0
    /\ config = ServiceConfig
    /\ issued = NoIssued
    /\ verified = NoVerified

\* the user service
UserSpecInit == ServiceClock /\ UserInit /\ OrderInit("service") /\ RestInit

UserNext ==
    \/ Register /\ UNCHANGED <<tokenVars, orderVars, routeVars, boundaryVars, catalogVars, restVars>>
    \/ DeleteUser /\ UNCHANGED <<tokenVars, orderVars, routeVars, boundaryVars, catalogVars, restVars>>
    \/ UpdateUser /\ UNCHANGED <<tokenVars, orderVars, routeVars, boundaryVars, catalogVars, restVars>>
    \/ LoginRequest /\ UNCHANGED <<tokenVars, orderVars, routeVars, boundaryVars, catalogVars, restVars>>

UserSpec == UserSpecInit /\ [][UserNext]_vars

\* order creation and pricing, in either deployment
PricingInit ==
    /\ ServiceClock /\ UserInit /\ RestInit
    /\ \E d \in {"monolith", "service"} : OrderInit(d)

PricingNext ==
    \/ CreateOrder(CreateBodies) /\ UNCHANGED <<tokenVars, userVars, routeVars, boundaryVars, catalogVars, restVars>>
    \/ NewOrder(CreateBodies) /\ UNCHANGED <<tokenVars, userVars, routeVars, boundaryVars, catalogVars, restVars>>
    \/ UseCaseCreate /\ UNCHANGED <<tokenVars, userVars, routeVars, boundaryVars, catalogVars, restVars>>

PricingSpec == PricingInit /\ [][PricingNext]_vars

\* the order routes: orders of well-formed requests, read and updated
GoodBodies == {Body("street 1", TRUE, <<Item(1, 2, 3)>>)}

OrderNext ==
    \/ CreateOrder(GoodBodies) /\ UNCHANGED <<tokenVars, userVars, routeVars, boundaryVars, catalogVars, restVars>>
    \/ NewOrder(GoodBodies) /\ UNCHANGED <<tokenVars, userVars, routeVars, boundaryVars, catalogVars, restVars>>
    \/ ControllerGetOrderByID /\ UNCHANGED <<tokenVars, userVars, routeVars, boundaryVars, catalogVars, restVars>>
    \/ HandlerGetOrderByID /\ UNCHANGED <<tokenVars, userVars, routeVars, boundaryVars, catalogVars, restVars>>
    \/ GetMyOrders /\ UNCHANGED <<tokenVars, userVars, routeVars, boundaryVars, catalogVars, restVars>>
    \/ GetAllOrders /\ UNCHANGED <<tokenVars, userVars, routeVars, boundaryVars, catalogVars, restVars>>
    \/ ControllerUpdateOrderStatus(StatusInputs) /\ UNCHANGED <<tokenVars, userVars, routeVars, boundaryVars, catalogVars, restVars>>
    \/ HandlerUpdateOrderStatus(StatusInputs) /\ UNCHANGED <<tokenVars, userVars, routeVars, boundaryVars, catalogVars, restVars>>

OrderSpec == PricingInit /\ [][OrderNext]_vars

\* statuses asked for on the status route of the next specification: the
\* five of the allow-set and an empty one
TargetStatuses == validStatuses \cup {""}

\* the create and status routes alone
StatusNext ==
    \/ CreateOrder(GoodBodies) /\ UNCHANGED <<tokenVars, userVars, routeVars, boundaryVars, catalogVars, restVars>>
    \/ NewOrder(GoodBodies) /\ UNCHANGED <<tokenVars, userVars, routeVars, boundaryVars, catalogVars, restVars>>
    \/ ControllerUpdateOrderStatus(TargetStatuses) /\ UNCHANGED <<tokenVars, userVars, routeVars, boundaryVars, catalogVars, restVars>>
    \/ HandlerUpdateOrderStatus(TargetStatuses) /\ UNCHANGED <<tokenVars, userVars, routeVars, boundaryVars, catalogVars, restVars>>

StatusSpec == PricingInit /\ [][StatusNext]_vars


\* the routers of the four programs
RouteSpecInit ==
    /\ ServiceClock /\ UserInit /\ OrderInit("monolith")
    /\ RouteInit /\ BoundaryIdle /\ CatalogInit /\ RestIdle

RouteNext ==
    Serve /\ UNCHANGED <<tokenVars, userVars, orderVars, boundaryVars, catalogVars, restVars>>

RouteSpec == RouteSpecInit /\ [][RouteNext]_vars

\* the boundary middleware over the errors of one request
BoundarySpecInit ==
    /\ ServiceClock /\ UserInit /\ OrderInit("monolith")
    /\ RouteInit /\ BoundaryInit /\ CatalogInit /\ RestIdle

BoundaryNext ==
    ErrorHandlerAfterNext /\ UNCHANGED <<tokenVars, userVars, orderVars, routeVars, catalogVars, restVars>>

BoundarySpec == BoundarySpecInit /\ [][BoundaryNext]_vars

\* the product routes, with the clock advancing
CatalogSpecInit ==
    /\ ServiceClock /\ UserInit /\ OrderInit("monolith")
    /\ RouteInit /\ BoundaryIdle /\ CatalogInit /\ RestIdle

CatalogNext ==
    \/ NewProduct(ProductRequests) /\ UNCHANGED <<tokenVars, userVars, orderVars, routeVars, boundaryVars, restVars>>
    \/ GetProductByID /\ UNCHANGED <<tokenVars, userVars, orderVars, routeVars, boundaryVars, restVars>>
    \/ UpdateProduct(ProductMaps) /\ UNCHANGED <<tokenVars, userVars, orderVars, routeVars, boundaryVars, restVars>>
    \/ DeleteProduct /\ UNCHANGED <<tokenVars, userVars, orderVars, routeVars, boundaryVars, restVars>>
    \/ Second /\ UNCHANGED <<userVars, orderVars, routeVars, boundaryVars, catalogVars, restVars>>

CatalogSpec == CatalogSpecInit /\ [][CatalogNext]_vars

\* the product routes with their listings, products of two categories
ListingNext ==
    \/ NewProduct(ListedRequests) /\ UNCHANGED <<tokenVars, userVars, orderVars, routeVars, boundaryVars, restVars>>
    \/ GetProductByID /\ UNCHANGED <<tokenVars, userVars, orderVars, routeVars, boundaryVars, restVars>>
    \/ UpdateProduct(ListedMaps) /\ UNCHANGED <<tokenVars, userVars, orderVars, routeVars, boundaryVars, restVars>>
    \/ DeleteProduct /\ UNCHANGED <<tokenVars, userVars, orderVars, routeVars, boundaryVars, restVars>>
    \/ GetAllProducts /\ UNCHANGED <<tokenVars, userVars, orderVars, routeVars, boundaryVars, restVars>>
    \/ GetProductsByCategory /\ UNCHANGED <<tokenVars, userVars, orderVars, routeVars, boundaryVars, restVars>>

ListingSpec == CatalogSpecInit /\ [][ListingNext]_vars

\* the order repositories over a failing store
FaultNext ==
    \/ CreateUnderFaults /\ UNCHANGED <<tokenVars, userVars, routeVars, boundaryVars, catalogVars, serviceVars, gatewayVars, refreshVars, raceVars>>
    \/ UpdateStatusUnderFaults /\ UNCHANGED <<tokenVars, userVars, routeVars, boundaryVars, catalogVars, serviceVars, gatewayVars, refreshVars, raceVars>>

FaultSpec == PricingInit /\ [][FaultNext]_vars

\* a program from its start on
ServiceSpecInit ==
    /\ ServiceClock /\ UserInit /\ OrderInit("monolith")
    /\ RouteInit /\ BoundaryIdle /\ CatalogInit /\ StoreIdle /\ ServiceInit
    /\ GatewayIdle /\ RefreshIdle /\ RaceIdle

ServiceNext ==
    \/ Start /\ UNCHANGED <<tokenVars, userVars, orderVars, routeVars, boundaryVars, catalogVars, faultVars, gatewayVars, refreshVars, raceVars>>
    \/ HandleRequest /\ UNCHANGED <<tokenVars, userVars, orderVars, routeVars, boundaryVars, catalogVars, faultVars, gatewayVars, refreshVars, raceVars>>

ServiceSpec == ServiceSpecInit /\ [][ServiceNext]_vars

\* the gateway alone
GatewaySpecInit ==
    /\ ServiceClock /\ UserInit /\ OrderInit("monolith")
    /\ RouteInit /\ BoundaryIdle /\ CatalogInit /\ RestIdle

GatewayNext ==
    \/ GatewayServe /\ UNCHANGED <<tokenVars, userVars, orderVars, routeVars, boundaryVars, catalogVars, faultVars, serviceVars, refreshVars, raceVars>>

GatewaySpec == GatewaySpecInit /\ [][GatewayNext]_vars

\* the user service with its refresh endpoint, while the clock runs
RefreshSpecInit == ServiceClock /\ UserInit /\ OrderInit("service") /\ RestInit

RefreshNext ==
    \/ Tick /\ UNCHANGED <<issued, verified, config, userVars, orderVars, routeVars, boundaryVars, catalogVars, restVars>>
    \/ RegisterOf(Emails, {"p"}) /\ UNCHANGED <<tokenVars, orderVars, routeVars, boundaryVars, catalogVars, restVars>>
    \/ DeleteUser /\ UNCHANGED <<tokenVars, orderVars, routeVars, boundaryVars, catalogVars, restVars>>
    \/ LoginRequestOf(Emails, {"p"}) /\ UNCHANGED <<tokenVars, orderVars, routeVars, boundaryVars, catalogVars, restVars>>
    \/ GetAccessTokenByRefreshToken /\ UNCHANGED <<tokenVars, userVars, orderVars, routeVars, boundaryVars, catalogVars, faultVars, serviceVars, gatewayVars, raceVars>>

RefreshSpec == RefreshSpecInit /\ [][RefreshNext]_vars

\* creations of products that run at the same time
RaceSpecInit ==
    /\ ServiceClock /\ UserInit /\ OrderInit("service")
    /\ RouteInit /\ BoundaryIdle /\ CatalogInit /\ RestIdle

RaceNext ==
    \/ \E p \in Racers : RaceBind(p) /\ UNCHANGED <<tokenVars, userVars, orderVars, routeVars, boundaryVars, faultVars, serviceVars, gatewayVars, refreshVars>>
    \/ \E p \in Racers : RaceInsert(p) /\ UNCHANGED <<tokenVars, userVars, orderVars, routeVars, boundaryVars, faultVars, serviceVars, gatewayVars, refreshVars>>
    \/ \E p \in Racers : RaceRespond(p) /\ UNCHANGED <<tokenVars, userVars, orderVars, routeVars, boundaryVars, faultVars, serviceVars, gatewayVars, refreshVars>>

RaceSpec == RaceSpecInit /\ [][RaceNext]_vars


-----------------------------------------------------------------------------
(* Properties of the token service (TokenSpec) *)

SecretFor(cfg, tokenType) ==
    IF tokenType = Refresh THEN cfg.RefreshSecret ELSE cfg.AccessSecret

\* the verification on record is of the token GenerateJWTToken last returned
VerifiedIssued ==
    /\ verified.done
    /\ issued.app.err = NoError
    /\ verified.token = issued.app.Token

Accepted == verified.done /\ verified.res.err = NoError

RejectedNotAuthenticated ==
    /\ verified.done
    /\ verified.res.err.kind = NotAuthenticated
    /\ verified.res.claims = NoClaims

\* C1: a token returned by GenerateJWTToken(id, t) is accepted by
\* GetClaimsAndVerifyToken(token, t) while the clock is before its expiry,
\* and the claims returned carry id as the id claim and t as the type.
TokenRoundTrip ==
    (VerifiedIssued /\ verified.expected = issued.app.TokenType
        /\ verified.at < issued.app.ExpirationTime)
    => /\ Accepted
       /\ verified.res.claims.id = Num(issued.userID)
       /\ verified.res.claims.type = Str(issued.app.TokenType)

\* a refresh token of principal 2, verified as a refresh token after the
\* clock has advanced, under different secrets
TokenRoundTripWitness ==
    /\ VerifiedIssued /\ Accepted
    /\ verified.expected = Refresh /\ issued.app.TokenType = Refresh
    /\ issued.userID = 2
    /\ verified.at > 1000
    /\ config.AccessSecret # config.RefreshSecret

\* C2: a token issued as refresh is never accepted where access is
\* expected and a token issued as access never where refresh is expected,
\* for every principal and also when the two secrets are equal.
TokenTypeIsolation ==
    (VerifiedIssued /\ verified.expected # issued.app.TokenType)
    => RejectedNotAuthenticated

\* an unexpired refresh token presented as an access token while the two
\* secrets are equal
TokenTypeIsolationWitness ==
    /\ VerifiedIssued /\ RejectedNotAuthenticated
    /\ issued.app.TokenType = Refresh /\ verified.expected = Access
    /\ config.AccessSecret = config.RefreshSecret
    /\ verified.at < issued.app.ExpirationTime

\* the conditions under which a token may be accepted
SignatureVerifies == verified.token.key = SecretFor(config, verified.expected)
AlgorithmIsHS256  == verified.token.alg = HS256
TypeAsExpected    == verified.token.claims.type = Str(verified.expected)
ExpNotPast        == verified.token.claims.exp.k = "num"
                     /\ verified.token.claims.exp.n >= verified.at
IDNumeric         == verified.token.claims.id.k = "num"

AllConditions ==
    SignatureVerifies /\ AlgorithmIsHS256 /\ TypeAsExpected /\ ExpNotPast /\ IDNumeric

\* C3: GetClaimsAndVerifyToken returns claims only if the signature
\* verifies under the secret of the expected type, the algorithm is HS256,
\* the type claim is the expected type, exp is a number not in the past and
\* id is a number; otherwise it returns no claims and NotAuthenticated,
\* never an error of another kind.
VerifyOnlyIfAllHold ==
    verified.done
    => /\ Accepted => AllConditions /\ verified.res.claims = verified.token.claims
       /\ ~AllConditions => RejectedNotAuthenticated
       /\ ~Accepted => RejectedNotAuthenticated

\* a token right in every part but its id claim, which is a string: rejected
VerifyOnlyIfAllHoldWitness ==
    /\ RejectedNotAuthenticated
    /\ SignatureVerifies /\ AlgorithmIsHS256 /\ TypeAsExpected /\ ExpNotPast
    /\ verified.token.claims.id.k = "str"

\* C4: with the clock in whole seconds, a correctly signed token of the
\* expected type is rejected when its exp equals the current time and
\* accepted when its exp is one second later.
ExpiryBoundary ==
    (verified.done /\ SignatureVerifies /\ AlgorithmIsHS256 /\ TypeAsExpected
        /\ IDNumeric)
    => /\ verified.token.claims.exp = Num(verified.at) => RejectedNotAuthenticated
       /\ verified.token.claims.exp = Num(verified.at + 1) => Accepted

\* an issued access token verified in the very second it expires
ExpiryBoundaryWitness ==
    /\ VerifiedIssued /\ RejectedNotAuthenticated
    /\ verified.expected = issued.app.TokenType
    /\ verified.at = issued.app.ExpirationTime
    /\ verified.at > 1000

-----------------------------------------------------------------------------
(* Properties of login (UserSpec) *)

\* C5: Login with an email of no principal and Login with an existing
\* email and a wrong password return the same error, of kind
\* NotAuthenticated, with the same status and message: every failed login
\* gets the one response.
LoginFailuresIdentical ==
    (loginRes.done /\ loginRes.resp.status # 200)
    => /\ loginRes.kind = NotAuthenticated
       /\ \A e \in Emails, p \in Passwords :
            LoginResponse(users, ServiceConfig, now, e, p).status # 200
            => LoginResponse(users, ServiceConfig, now, e, p) = loginRes.resp

\* the login on record was for a principal registered with a password
LoginOfRegistered == loginRes.done /\ loginRes.user.HashPassword.hashed

TokensFor(tokens, id) ==
    /\ tokens.AccessToken # NoToken
    /\ tokens.RefreshToken # NoToken
    /\ tokens.AccessToken.claims.id = Num(id)
    /\ tokens.AccessToken.claims.type = Str(Access)
    /\ tokens.RefreshToken.claims.id = Num(id)
    /\ tokens.RefreshToken.claims.type = Str(Refresh)

LoginSucceeds ==
    /\ loginRes.resp.status = 200
    /\ loginRes.resp.id = loginRes.user.ID
    /\ TokensFor(loginRes.resp.tokens, loginRes.user.ID)

LoginFailsWith(message) ==
    loginRes.resp = [status |-> 401, error |-> message, id |-> 0, tokens |-> NoTokens]

\* C6 as stated: after registration with e and p, Login(e, p) returns
\* non-empty access and refresh tokens of the principal's id, and
\* Login(e, q), q # p, is answered 401 {"error":"not authenticated"}.
LoginAfterRegisterDefaultBody ==
    LoginOfRegistered
    => IF loginRes.password = loginRes.user.HashPassword.of
       THEN LoginSucceeds
       ELSE LoginFailsWith("not authenticated")

\* C6 amended: the body of the 401 is the message Login gives the error,
\* {"error":"email or password does not match"}.
LoginAfterRegister ==
    LoginOfRegistered
    => IF loginRes.password = loginRes.user.HashPassword.of
       THEN LoginSucceeds
       ELSE LoginFailsWith("email or password does not match")

\* a registered principal logging in with a password that is not theirs
LoginAfterRegisterWitness ==
    /\ LoginOfRegistered
    /\ loginRes.password # loginRes.user.HashPassword.of
    /\ loginRes.resp.status = 401

-----------------------------------------------------------------------------
(* Properties of order creation (PricingSpec) *)

RECURSIVE SumQuantityTimesPrice(_)
SumQuantityTimesPrice(items) ==
    IF items = <<>> THEN 0
    ELSE items[1].Quantity * items[1].Price + SumQuantityTimesPrice(Tail(items))

PositiveItems(items) ==
    /\ items # <<>>
    /\ \A i \in DOMAIN items : items[i].Quantity > 0 /\ items[i].Price > 0

\* C7: every order handed to persistence by Create with a non-empty list
\* of items of positive quantity and price has subtotal = quantity x price
\* in each item and total = the sum of the subtotals, whatever the incoming
\* order carried.
OrderTotalInvariant ==
    \A n \in DOMAIN orders :
        PositiveItems(orders[n].Items)
        => /\ \A i \in DOMAIN orders[n].Items :
                orders[n].Items[i].Subtotal
                    = orders[n].Items[i].Quantity * orders[n].Items[i].Price
           /\ orders[n].TotalAmount = SumQuantityTimesPrice(orders[n].Items)

\* the use case was handed a two-item order carrying subtotals 0 and 50
\* and a total of 99, and stored 2 x 3 + 1 x 5 = 11
OrderTotalWitness ==
    /\ orderRes.op = "usecase-create"
    /\ Len(orderRes.out) = 1
    /\ Len(orderRes.out[1].Items) = 2
    /\ orderRes.out[1].TotalAmount = 11
    /\ orders[orderRes.id] = orderRes.out[1]

\* C8: Create fails with ValidationError and persists nothing when the
\* item list is empty or an item has quantity <= 0 or price <= 0: no such
\* order is ever stored or returned.
CreateRejectsInvalidItems ==
    /\ \A n \in DOMAIN orders : PositiveItems(orders[n].Items)
    /\ (orderRes.op = "create" /\ orderRes.status = 200)
       => PositiveItems(orderRes.out[1].Items)

\* C11: the owner id of an order created through the create route is the
\* subject of the access token the request was authenticated with, in the
\* response as in the store; a "userId" in the request body does not
\* override it.
OrderOwnerIsCaller ==
    (orderRes.op = "create" /\ orderRes.status = 200)
    => /\ orderRes.caller \in UserIDs
       /\ orderRes.out[1].UserID = orderRes.caller
       /\ orders[orderRes.id].UserID = orderRes.caller

OrderOwnerIsCallerWitness ==
    /\ orderRes.op = "create" /\ orderRes.status = 200
    /\ orderRes.caller = 1 /\ orderRes.bodyUserId = 2
    /\ orders[orderRes.id].UserID = 1

\* C17: the status of every order the use case or the create route has just
\* created is pending, whatever status the incoming order carried.
CreatedOrderIsPending ==
    (orderRes.op \in {"create", "usecase-create"} /\ orderRes.status = 200)
    => /\ orderRes.out[1].Status = OrderStatusPending
       /\ orders[orderRes.id].Status = OrderStatusPending

CreatedOrderIsPendingWitness ==
    /\ orderRes.op = "usecase-create" /\ orderRes.from = "paid"
    /\ orderRes.status = 200
    /\ orders[orderRes.id].Status = OrderStatusPending

-----------------------------------------------------------------------------
(* Properties of the order routes (OrderSpec, StatusSpec) *)

\* C9: UpdateStatus with a status outside {pending, paid, shipped,
\* delivered, cancelled} fails with ValidationError and changes nothing,
\* on the order service as on the monolith, so every persisted order has
\* one of the five statuses.
StatusAlwaysValid ==
    /\ \A n \in DOMAIN orders : orders[n].Status \in validStatuses
    /\ (orderRes.op = "status" /\ orderRes.status = 200)
       => orderRes.out[1].Status \in validStatuses

\* C10: list, get-by-id and update-status only return or modify orders
\* whose owner is the principal of the caller's verified access token.
OrderRoutesScopedToCaller ==
    orderRes.op \in {"list", "get", "status"}
    => \A i \in DOMAIN orderRes.out : orderRes.out[i].UserID = orderRes.caller

\* C18: UpdateStatus of a persisted order to any of the five statuses
\* succeeds whatever status the order had, delivered and cancelled
\* included, and the order then has the status asked for.
AnyTransitionAccepted ==
    (/\ orderRes.op = "status" /\ orderRes.caller \in UserIDs
     /\ orderRes.id \in DOMAIN orders
     /\ orderRes.to \in validStatuses)
    => /\ orderRes.status = 200
       /\ orderRes.out[1].Status = orderRes.to
       /\ orders[orderRes.id].Status = orderRes.to

AnyTransitionAcceptedWitness ==
    /\ orderRes.op = "status" /\ orderRes.status = 200
    /\ orderRes.from \in {"delivered", "cancelled"}
    /\ orderRes.to = OrderStatusPending
    /\ orders[orderRes.id].Status = OrderStatusPending

\* the fields of an order other than its status
Frame(o) == [o EXCEPT !.Status = ""]

\* C19: a request on the status route changes, of the stored orders, at most
\* the status of the order it names: owner, items, total and address of
\* that order stay as they were, every other order stays as it was, and no
\* order appears or disappears.
UpdateStatusChangesOnlyStatus ==
    [][orderRes'.op = "status"
       => /\ DOMAIN orders' = DOMAIN orders
          /\ \A n \in DOMAIN orders :
                /\ Frame(orders'[n]) = Frame(orders[n])
                /\ (n # orderRes'.id => orders'[n] = orders[n])]_vars

UpdateStatusChangesOnlyStatusWitness ==
    /\ orderRes.op = "status" /\ orderRes.status = 200
    /\ orderRes.from # orderRes.to
    /\ Len(orders) = MaxOrders
    /\ orders[orderRes.id].Status = orderRes.to
    /\ orders[orderRes.id].TotalAmount = 6
    /\ orders[orderRes.id].ShippingAddress = "street 1"

-----------------------------------------------------------------------------
(* Properties of the routers (RouteSpec) *)

\* the routes the contract protects: every order route, every user route,
\* and the create, update and delete routes of category and product
Protected(r) ==
    \/ r.group \in {"order", "user"}
    \/ r.group \in {"category", "product"} /\ r.method # "GET"

\* the request carried a bearer token that verifies as an access token
VerifiesAsAccess(bearer) ==
    /\ bearer # NoToken
    /\ GetClaimsAndVerifyToken(ServiceConfig, bearer, Access, now).err = NoError

\* C12: the handler of a protected route runs only for a request whose
\* bearer token verifies as an access token; a request with no token or an
\* invalid one is answered with NotAuthenticated (401); the GET routes of
\* category and product are served whatever the token.
ProtectedRoutesNeedAccessToken ==
    routeRes.service # ""
    => /\ (Protected(routeRes) /\ routeRes.ran) => VerifiesAsAccess(routeRes.bearer)
       /\ (Protected(routeRes) /\ ~VerifiesAsAccess(routeRes.bearer))
            => /\ ~routeRes.ran
               /\ routeRes.kind = NotAuthenticated
               /\ routeRes.status = 401
       /\ (routeRes.group \in {"category", "product"} /\ routeRes.method = "GET")
            => routeRes.ran

ProtectedRoutesNeedAccessTokenWitness ==
    /\ routeRes.service = "catalog" /\ routeRes.group = "product"
    /\ routeRes.method = "POST"
    /\ routeRes.bearer.claims.type = Str(Refresh)
    /\ ~routeRes.ran /\ routeRes.status = 401

-----------------------------------------------------------------------------
(* Properties of the error boundary (TokenSpec, BoundarySpec) *)

\* C13: every error an operation returns is an AppError of one kind of the
\* taxonomy: the token service returns no untyped error, neither when it
\* issues nor when it verifies.
EveryErrorIsAppError ==
    /\ (issued.userID \in UserIDs /\ issued.app.err # NoError)
         => issued.app.err.kind \in ErrorKinds
    /\ verified.res.err # NoError => verified.res.err.kind \in ErrorKinds

\* the status and the default message of each kind, as tabled
StatusTable ==
    [NotFound |-> 404, ValidationError |-> 400, ResourceAlreadyExists |-> 409,
     RepositoryError |-> 500, NotAuthenticated |-> 401,
     TokenGeneratorError |-> 500, NotAuthorized |-> 403, UnknownError |-> 500]

MessageTable ==
    [NotFound |-> "record not found", ValidationError |-> "validation error",
     ResourceAlreadyExists |-> "resource already exists",
     RepositoryError |-> "error in repository operation",
     NotAuthenticated |-> "not Authenticated",
     TokenGeneratorError |-> "error in token generation",
     NotAuthorized |-> "not authorized", UnknownError |-> "something went wrong"]

\* the same with the message of NotAuthenticated in lower case
MessageTableLowerCase ==
    [MessageTable EXCEPT !.NotAuthenticated = "not authenticated"]

\* the last error of the context, the one the boundary answers for
LastError == ginErrors[Len(ginErrors)]

\* the boundary wrote status and body of the last error by the tables
WrittenByTables(messages) ==
    (written.done /\ Len(ginErrors) > 0 /\ LastError.kind \in ErrorKinds)
    => /\ written.status = StatusTable[LastError.kind]
       /\ written.error = LastError.msg
       /\ LastError = NewAppErrorWithType(LastError.kind)
            => written.error = messages[LastError.kind]

\* C14 as stated: the boundary writes the fixed status of the kind of the
\* error and the body {"error": message}, and an error built from a kind
\* alone carries the default message of the table, "not authenticated" for
\* NotAuthenticated.
BoundaryWritesTableLowerCase == WrittenByTables(MessageTableLowerCase)

\* C14 amended: the same, the default message of NotAuthenticated being
\* "not Authenticated".
BoundaryWritesTable == WrittenByTables(MessageTable)

BoundaryWritesTableWitness ==
    /\ written.done /\ Len(ginErrors) = 2
    /\ ginErrors[1] = NewAppError("invalid id", ValidationError)
    /\ LastError = NewAppErrorWithType(NotAuthenticated)
    /\ written.status = 401 /\ written.error = "not Authenticated"

-----------------------------------------------------------------------------
(* Properties of the product catalog (CatalogSpec) *)

\* C15: creating a product whose SKU a stored product already has fails
\* with ResourceAlreadyExists (409).
DuplicateSKUIsResourceAlreadyExists ==
    (catalogRes.op = "create" /\ catalogRes.found)
    => /\ catalogRes.kind = ResourceAlreadyExists
       /\ catalogRes.status = 409

\* a successful update changed, of the stored products, only the product
\* it names, and of that product only the fields its map names and the
\* fields exempt
UpdateFrame(exempt) ==
    (catalogRes'.op = "update" /\ catalogRes'.status = 200)
    => LET id    == catalogRes'.id
           named == {ProductColumns[col] : col \in DOMAIN catalogRes'.m}
       IN /\ \A x \in products : x.ID # id => x \in products'
          /\ \A y \in products' : y.ID # id => y \in products
          /\ \E y \in products' : y.ID = id
          /\ \A x \in products, y \in products' :
                (x.ID = id /\ y.ID = id)
                => \A f \in DOMAIN x \ (named \cup exempt) : y[f] = x[f]

\* C16 as stated: Update(id, m) on a stored product changes only the fields
\* named in m; every unnamed field of the product and every other product
\* stay as they were.
UpdateChangesOnlyNamedFields == [][UpdateFrame({})]_vars

\* C16 amended: the same, except that the update timestamp of the product
\* is set to the time of the update.
UpdateChangesOnlyNamedFieldsAndTimestamp == [][UpdateFrame({"UpdatedAt"})]_vars

UpdateChangesOnlyNamedFieldsWitness ==
    /\ catalogRes.op = "update" /\ catalogRes.status = 200
    /\ DOMAIN catalogRes.m = {"stock"}
    /\ catalogRes.out.Stock = 5 /\ catalogRes.out.Name = "n1"
    /\ catalogRes.out.Price = 3 /\ catalogRes.out.SKU \in SKUs
    /\ catalogRes.out.UpdatedAt > 1000
    /\ catalogRes.out \in products
    /\ \E x \in products : x.ID # catalogRes.id /\ x.Stock = 0 /\ x.UpdatedAt = 1000

\* C20: GetByID, Update and Delete of a product with an id that no stored
\* product has answer NotFound (404).
UnknownIdIsNotFound ==
    (/\ catalogRes.op \in {"get", "update", "delete"}
     /\ ~catalogRes.found
     /\ DOMAIN catalogRes.m \subseteq DOMAIN ProductColumns)
    => /\ catalogRes.kind = NotFound
       /\ catalogRes.status = 404

-----------------------------------------------------------------------------
(* Properties of the order repositories over a failing store (FaultSpec) *)

\* C21: an operation during which a store call failed returns an error to
\* its caller, never a success: order Create and order UpdateStatus do not
\* return an order when the reload of the written order fails.
FailedStoreCallIsError ==
    storeRes.fault # 0 => storeRes.err # NoError

-----------------------------------------------------------------------------
(* Properties of the stored principals (UserSpec) *)

\* C22: in every reachable state the stored password field of every
\* principal is an output of the password hashing function, never a
\* plaintext a client supplied.
StoredPasswordIsHash ==
    \A u \in users : u.HashPassword.hashed

-----------------------------------------------------------------------------
(* Properties of the product listings (ListingSpec) *)

\* C23: GetAll returns exactly the stored products whose active flag is
\* true, GetByCategory(c) exactly the stored active products of category c;
\* GetByID returns a stored product whether active or not.
ListingsHoldActiveProducts ==
    /\ catalogRes.op = "list"
         => catalogRes.list = {x \in products : x.IsActive}
    /\ catalogRes.op = "by-category"
         => catalogRes.list =
                {x \in products : x.IsActive /\ x.CategoryID = catalogRes.id}
    /\ catalogRes.op = "get"
         => \A x \in products :
                x.ID = catalogRes.id => catalogRes.status = 200 /\ catalogRes.out = x

ListingsHoldActiveProductsWitness ==
    /\ catalogRes.op = "by-category"
    /\ \E x, y \in products :
          /\ x.CategoryID = catalogRes.id /\ ~x.IsActive /\ x \notin catalogRes.list
          /\ y.CategoryID = catalogRes.id /\ y.IsActive /\ y \in catalogRes.list
          /\ ProductGetByID(products, x.ID).product = x

\* whether the store holds a product with the id
Stored(rows, id) == \E x \in rows : x.ID = id

PriceAndStockNonNegative ==
    \A x \in products : x.Price >= 0 /\ x.Stock >= 0

-----------------------------------------------------------------------------
(* Properties of a running program (ServiceSpec) *)

\* C26: once a program is serving, no request outcome stops it: a request
\* that fails, a panic inside a handler included, is answered with an error
\* status for that request, and the program is still serving afterwards.
FailuresStayInTheirRequest ==
    /\ \A i \in DOMAIN reqLog :
          /\ ~reqLog[i].panicked
          /\ reqLog[i].cause = "ok" => reqLog[i].status = 200
          /\ reqLog[i].cause # "ok" => reqLog[i].status \in 400..599
    /\ reqLog # <<>> => boot.phase = "serving"

FailuresStayInTheirRequestWitness ==
    /\ Len(reqLog) = 3
    /\ reqLog[1].cause = "panic" /\ reqLog[1].status = 500
    /\ reqLog[2].cause = "store error" /\ reqLog[2].status = 500
    /\ reqLog[3].cause = "ok" /\ reqLog[3].status = 200
    /\ boot.phase = "serving"

\* C27: when the store cannot be reached at startup, the startup returns
\* an error and no application context: nothing is constructed, the
\* program does not serve, and no request is ever served.
NoStoreNoService ==
    (~boot.storeUp /\ boot.phase \notin {"", "start"})
    => /\ boot.err
       /\ boot.ctx = {}
       /\ boot.phase = "exited"
       /\ reqLog = <<>>

NoStoreNoServiceWitness ==
    /\ program = "monolith"
    /\ ~boot.storeUp /\ boot.phase = "exited"
    /\ boot.err /\ boot.ctx = {} /\ reqLog = <<>>

-----------------------------------------------------------------------------
(* Properties of the gateway (GatewaySpec) *)

\* the service that owns each path prefix
OwningService ==
    [auth |-> "user", user |-> "user",
     category |-> "catalog", product |-> "catalog", catalog |-> "catalog",
     order |-> "order"]

\* the request on record lies under one of the forwarded prefixes
UnderForwardedPrefix ==
    /\ gatewayRes # NoGatewayRes
    /\ Len(gatewayRes.req.path) >= 3
    /\ gatewayRes.req.path[1] = "v1"
    /\ gatewayRes.req.path[2] \in DOMAIN OwningService

\* the request on record went to the owning service as it came
ForwardedUnchanged ==
    gatewayRes.forwarded =
        [service       |-> OwningService[gatewayRes.req.path[2]],
         method        |-> gatewayRes.req.method,
         path          |-> gatewayRes.req.path,
         authorization |-> gatewayRes.req.authorization]

\* a cross-origin OPTIONS request
Preflight ==
    /\ gatewayRes.req.method = "OPTIONS"
    /\ gatewayRes.req.origin \notin {"", GatewayHost}

\* C28, as stated: every request under /v1/auth and /v1/user goes to the user
\* service, under /v1/category, /v1/product and /v1/catalog to the catalog
\* service and under /v1/order to the order service, with its method, path and
\* Authorization header unchanged, whatever the Authorization header holds.
GatewayForwardsEveryRequest ==
    UnderForwardedPrefix => ForwardedUnchanged

\* C28, as the code has it: the same of every such request but a cross-origin
\* OPTIONS request, which the cors middleware answers at the gateway with
\* 204 and which reaches no service.
GatewayForwardsAllButPreflights ==
    UnderForwardedPrefix =>
        IF Preflight
        THEN gatewayRes.forwarded = NoForward /\ gatewayRes.status = "204"
        ELSE ForwardedUnchanged

\* a POST under /v1/order with a header that is no token reached the order
\* service as it came
GatewayForwardsAllButPreflightsWitness ==
    /\ UnderForwardedPrefix
    /\ gatewayRes.req.method = "POST"
    /\ gatewayRes.req.path = <<"v1", "order", "1">>
    /\ gatewayRes.req.authorization = "Bearer bogus"
    /\ gatewayRes.forwarded.service = "order"
    /\ gatewayRes.forwarded.authorization = "Bearer bogus"
    /\ gatewayRes.status = "upstream"

-----------------------------------------------------------------------------
(* Properties of the refresh endpoint (RefreshSpec) *)

\* the call on record presented a refresh token that verifies at the time
\* of the call and whose user is stored
RefreshOfValidToken ==
    /\ refreshRes.done
    /\ refreshRes.presented.alg = HS256
    /\ refreshRes.presented.key = ServiceConfig.RefreshSecret
    /\ refreshRes.presented.claims.type = Str(Refresh)
    /\ refreshRes.presented.claims.exp.k = "num"
    /\ refreshRes.at < refreshRes.presented.claims.exp.n
    /\ refreshRes.presented.claims.id.k = "num"
    /\ \E u \in users : u.ID = refreshRes.presented.claims.id.n

\* C29: AccessTokenByRefreshToken(r) with a valid refresh token r returns an
\* access token issued at the time of the call whose id is the id r carries,
\* together with r itself and the expiry of r's own exp claim; a call that
\* succeeds never returns another refresh token than the one presented, nor
\* an expiry later than that token's.
RefreshKeepsRefreshToken ==
    /\ RefreshOfValidToken => refreshRes.err = NoError
    /\ (refreshRes.done /\ refreshRes.err = NoError) =>
          /\ refreshRes.tokens.RefreshToken = refreshRes.presented
          /\ refreshRes.tokens.ExpirationRefreshDateTime
                = refreshRes.presented.claims.exp.n
          /\ refreshRes.tokens.AccessToken.claims.id
                = refreshRes.presented.claims.id
          /\ refreshRes.tokens.AccessToken.claims.type = Str(Access)
          /\ refreshRes.tokens.AccessToken.key = ServiceConfig.AccessSecret
          /\ refreshRes.tokens.AccessToken.claims.exp
                = Num(refreshRes.at + ServiceConfig.AccessTime * SecondsPerMinute)
          /\ refreshRes.tokens.ExpirationAccessDateTime
                = refreshRes.at + ServiceConfig.AccessTime * SecondsPerMinute
          /\ refreshRes.user.ID = refreshRes.presented.claims.id.n

\* a refresh token issued at second 1000 was presented later and came back
\* itself, with its first expiry and an access token of the later time
RefreshKeepsRefreshTokenWitness ==
    /\ refreshRes.done
    /\ refreshRes.err = NoError
    /\ refreshRes.at > 1000
    /\ refreshRes.presented.claims.exp = Num(1000 + SecondsPerHour)
    /\ refreshRes.tokens.RefreshToken = refreshRes.presented
    /\ refreshRes.tokens.AccessToken.claims.exp.n > 1000 + SecondsPerMinute

-----------------------------------------------------------------------------
(* Properties of concurrent creations (RaceSpec) *)

\* the creation of p has been answered with success
RaceSucceeded(p) == racers[p].pc = "done" /\ racers[p].status = 200

\* C30: when requests create products with the same SKU at the same time,
\* in every interleaving of their steps at most one of them succeeds, the
\* one that succeeds is the one whose row is stored, and the store never
\* holds two products with the same SKU.
OneCreationPerUniqueKey ==
    /\ \A x, y \in products : x.SKU = y.SKU => x = y
    /\ \A p, q \in Racers :
          (RaceSucceeded(p) /\ RaceSucceeded(q)
              /\ racers[p].req.SKU = racers[q].req.SKU) => p = q
    /\ \A p \in Racers :
          RaceSucceeded(p) =>
              \E x \in products : x.ID = racers[p].product.ID
                                   /\ x.SKU = racers[p].req.SKU

\* two creations with the same SKU are in flight at once, both past the
\* store and neither answered yet: one holds its row, the other an error,
\* and the store holds one product of that SKU
OneCreationPerUniqueKeyWitness ==
    /\ racers[1].pc = "stored" /\ racers[2].pc = "stored"
    /\ racers[1].req.SKU = "s1" /\ racers[2].req.SKU = "s1"
    /\ racers[2].err = NoError /\ racers[2].product.SKU = "s1"
    /\ racers[1].err.kind = UnknownError
    /\ Cardinality({x \in products : x.SKU = "s1"}) = 1

====
